---- MODULE Spec2Model ----
(***************************************************************************)
(* Subquery resolution, result caching and join scoping of the analyzer    *)
(* (resolve_subqueries.go, carried in src/sql/plan/showvariables.go from   *)
(* line 103 on).                                                           *)
(*                                                                         *)
(* Plan nodes and expressions are immutable values here; the one in-place  *)
(* assignment of the code (n.OuterScopeVisibility = true) is followed by   *)
(* returning, beside each result, the input tree as it is after the call   *)
(* (field orig).                                                           *)
(***************************************************************************)
EXTENDS Integers, Sequences, FiniteSets, TLC

VARIABLES
    input,      \* the plan handed to the last rule, as it was before the call
    scope,      \* the scope the rules of this query run under
    analysis,   \* outcome of the other analyzer rules on each subquery body
    op,         \* the last rule applied
    res,        \* its result: [node, same, err]
    calls,      \* recursive analyses started by the last rule, in order
    orig,       \* the input plan as it is after the call
    batch       \* the rule batch being evaluated, if any

vars == <<input, scope, analysis, op, res, calls, orig, batch>>

(***************************************************************************)
(* Bounds                                                                  *)
(***************************************************************************)
MaxNest == 2        \* deepest nesting of subqueries in an input plan
MaxIdx == 3         \* highest column index of a field reference
MaxIterations == 3  \* largest iteration bound of a batch
MaxWrap == 3        \* most passthrough wrappers stacked on a plan
MaxMembers == 3     \* most member values of a set type
MaxScopeLen == 2    \* most columns of the scope the join rules run under

(***************************************************************************)
(* Plan nodes and expressions                                              *)
(***************************************************************************)
Node(kind, name, cols, exprs, children, vis) ==
    [kind |-> kind, name |-> name, cols |-> cols, exprs |-> exprs,
     children |-> children, vis |-> vis]

NilNode == Node("nil", 0, 0, <<>>, <<>>, FALSE)

ResolvedTable(c) == Node("ResolvedTable", 0, c, <<>>, <<>>, FALSE)
UnresolvedTable == Node("UnresolvedTable", 0, 0, <<>>, <<>>, FALSE)
Filter(e, child) == Node("Filter", 0, 0, <<e>>, <<child>>, FALSE)
Project(es, child) == Node("Project", 0, 0, es, <<child>>, FALSE)
\* cols is len(n.Columns), vis is n.OuterScopeVisibility
SubqueryAlias(name, cols, child, vis) ==
    Node("SubqueryAlias", name, cols, <<>>, <<child>>, vis)
QueryProcess(child) == Node("QueryProcess", 0, 0, <<>>, <<child>>, FALSE)
StartTransaction(child) == Node("StartTransaction", 0, 0, <<>>, <<child>>, FALSE)
TransactionCommittingNode(child) ==
    Node("TransactionCommittingNode", 0, 0, <<>>, <<child>>, FALSE)
\* the body of a trigger, and the node that runs it after its first child
TriggerBeginEndBlock(child) ==
    Node("TriggerBeginEndBlock", 0, 0, <<>>, <<child>>, FALSE)
TriggerExecutor(child, block) ==
    Node("TriggerExecutor", 0, 0, <<>>, <<child, block>>, FALSE)
\* the plan.JoinNode implementations; cols is the ScopeLen of the join
JoinNode(kind, left, right, scopeLen) ==
    Node(kind, 0, scopeLen, <<>>, <<left, right>>, FALSE)
IsJoinNode(n) == n.kind \in {"InnerJoin", "LeftJoin", "RightJoin"}
\* j.JoinType() == plan.JoinTypeRight
IsRightJoin(n) == n.kind = "RightJoin"
IndexedJoin(left, right) == Node("IndexedJoin", 0, 0, <<>>, <<left, right>>, FALSE)
\* plan.NewCachedResults(n)
NewCachedResults(child) == Node("CachedResults", 0, 0, <<>>, <<child>>, FALSE)
\* plan.NewStripRowNode(n, numCols); cols is numCols
NewStripRowNode(child, numCols) ==
    Node("StripRowNode", 0, numCols, <<>>, <<child>>, FALSE)
\* j.WithScopeLen(scopeLen)
WithScopeLen(j, scopeLen) == [j EXCEPT !.cols = scopeLen]

Expr(kind, name, idx, args, query, cached) ==
    [kind |-> kind, name |-> name, idx |-> idx, args |-> args,
     query |-> query, cached |-> cached]

NilExpr == Expr("nil", 0, 0, <<>>, NilNode, FALSE)
GetField(i) == Expr("GetField", 0, i, <<>>, NilNode, FALSE)
Literal == Expr("Literal", 0, 0, <<>>, NilNode, FALSE)
Rand == Expr("Rand", 0, 0, <<>>, NilNode, FALSE)
Equals(l, r) == Expr("Equals", 0, 0, <<l, r>>, NilNode, FALSE)
Subquery(name, query) == Expr("Subquery", name, 0, <<>>, query, FALSE)

\* sql.Expressioner: the nodes that carry expressions
IsExpressioner(n) == n.kind \in {"Filter", "Project"}

\* Subquery.WithQuery: a copy of the expression around another query
WithQuery(sq, q) == [sq EXCEPT !.query = q]

\* Subquery.WithCachedResults
WithCachedResults(sq) == [sq EXCEPT !.cached = TRUE]

RECURSIVE SchemaLen(_)
\* len(n.Schema())
SchemaLen(n) ==
    CASE n.kind = "ResolvedTable" -> n.cols
      [] n.kind = "Project" -> Len(n.exprs)
      [] n.kind \in {"nil", "UnresolvedTable"} -> 0
      [] OTHER -> SchemaLen(n.children[1])

\* schemaLength: the number of columns the analyzed body produces
schemaLength(n) == SchemaLen(n)

(***************************************************************************)
(* Errors and tree identity                                                *)
(***************************************************************************)
NoErr == "nil"
Deferrable == {"ErrValidationResolved", "ErrTableColumnNotFound", "ErrColumnNotFound"}
ErrKinds == Deferrable \cup {"ErrTableNotFound", "ErrColumnCountMismatch"}

\* a (node, identity, error) result; same is TRUE for transform.SameTree.
\* cs are the recursive analyses made, og the input as it is after the call
Res(node, same, err, cs, og) ==
    [node |-> node, same |-> same, err |-> err, calls |-> cs, orig |-> og]

\* F applied to the value of v, v being evaluated once
Bind(v, F(_)) == CHOOSE x \in {F(r) : r \in {v}} : TRUE

(***************************************************************************)
(* Scope                                                                   *)
(***************************************************************************)
NilScope == [isNil |-> TRUE, nodes |-> <<>>, depth |-> 0]

newScopeWithDepth(d) == [isNil |-> FALSE, nodes |-> <<>>, depth |-> d]

RecursionDepth(s) == IF s.isNil THEN 0 ELSE s.depth

InnerToOuter(s) == IF s.isNil THEN <<>> ELSE s.nodes

IsEmpty(s) == s.isNil \/ Len(s.nodes) = 0

\* scope.newScope(node): the scope extended with node as innermost node
newScope(s, node) ==
    [isNil |-> FALSE, nodes |-> <<node>> \o InnerToOuter(s), depth |-> RecursionDepth(s)]

RECURSIVE SumSchema(_, _)
SumSchema(ns, i) ==
    IF i > Len(ns) THEN 0 ELSE SchemaLen(ns[i]) + SumSchema(ns, i + 1)

\* len(scope.Schema())
ScopeSchemaLen(s) == SumSchema(InnerToOuter(s), 1)

(***************************************************************************)
(* The analyzer, as far as the subquery rules drive it                     *)
(***************************************************************************)
RECURSIVE resolveSubqueries(_, _, _)
RECURSIVE finalizeSubqueries(_, _, _)

\* what the rules other than the subquery rules do to one subquery body:
\* fail with err, or succeed reporting same and wrapping the body in wrap
Outcome(err, same, wrap) == [err |-> err, same |-> same, wrap |-> wrap]

Outcomes ==
    {Outcome(NoErr, TRUE, "none"), Outcome(NoErr, FALSE, "none"),
     Outcome(NoErr, FALSE, "QueryProcess"), Outcome(NoErr, FALSE, "Stacked")}
    \cup {Outcome(e, TRUE, "none") : e \in Deferrable \cup {"ErrTableNotFound"}}

ApplyWrap(w, n) ==
    CASE w = "QueryProcess" -> QueryProcess(n)
      [] w = "StartTransaction" -> StartTransaction(n)
      [] w = "TransactionCommittingNode" -> TransactionCommittingNode(n)
      [] w = "Stacked" -> QueryProcess(TransactionCommittingNode(n))
      [] OTHER -> n

\* One run of the rule batches on a subquery body under scope s. The batches
\* selected decide whether resolveSubqueries and finalizeSubqueries run on
\* the body; a failing rule ends the run with the last node before the error.
\* The outcome of the other rules is an input of the model, given per subquery
\* name (bodies two levels apart share one outcome).
analyzeBody(body, s, an, name, doResolve, doFinalize) ==
    Bind(IF doResolve THEN resolveSubqueries(body, s, an)
         ELSE Res(body, TRUE, NoErr, <<>>, body), LAMBDA r1 :
    LET n1 == IF r1.err = NoErr THEN r1.node ELSE r1.orig
    IN
    Bind(IF doFinalize /\ r1.err = NoErr THEN finalizeSubqueries(n1, s, an)
         ELSE Res(n1, TRUE, NoErr, <<>>, n1), LAMBDA r2 :
    LET n2 == IF r2.err = NoErr THEN r2.node ELSE n1
        og == IF r1.same THEN r2.orig ELSE r1.orig
        cs == r1.calls \o r2.calls
        same == r1.same /\ r2.same
        o == an[name % 2]
    IN  IF r1.err # NoErr THEN Res(n1, TRUE, r1.err, cs, og)
        ELSE IF r2.err # NoErr THEN Res(n2, same, r2.err, cs, og)
        ELSE IF o.err # NoErr THEN Res(n2, same, o.err, cs, og)
        ELSE Res(ApplyWrap(o.wrap, n2), same /\ o.same, NoErr, cs, og)))

\* a.analyzeWithSelector(ctx, query, subScope, SelectAllBatches, selector): all
\* batches; the tentative selector leaves the subquery rules out
analyzeWithSelector(body, s, an, name, finalize) ==
    analyzeBody(body, s, an, name, finalize, finalize)

\* a.analyzeThroughBatch(ctx, child, subScope, "default-rules", sel)
analyzeThroughBatch(body, s, an, name) ==
    analyzeBody(body, s, an, name, TRUE, FALSE)

\* a.analyzeStartingAtBatch(ctx, child, subScope, "default-rules", sel)
analyzeStartingAtBatch(body, s, an, name) ==
    analyzeBody(body, s, an, name, TRUE, TRUE)

\* one entry of the log of recursive analyses: the function that started it,
\* the node (the SubqueryAlias, or the node holding the Subquery sq), the scope
\* it ran under and the one it made, what the analyzer returned (body, same,
\* err), what the function returned (ret) and how many analyses the analyzer
\* started inside this one (nested)
Call(fn, node, sq, s, subScope, finalize, a, ret, cx) ==
    [fn |-> fn, node |-> node, sq |-> sq, scope |-> s, subScope |-> subScope,
     finalize |-> finalize, body |-> a.node, same |-> a.same, err |-> a.err,
     nested |-> Len(a.calls), ctx |-> cx,
     ret |-> [node |-> ret.node, same |-> ret.same, err |-> ret.err]]

\* the result r with the call it answers appended to its log
Logged(r, fn, node, sq, s, subScope, finalize, a, cx) ==
    [r EXCEPT !.calls =
        Append(a.calls, Call(fn, node, sq, s, subScope, finalize, a, r, cx))]

\* the entry of the log for one call of expressioner.WithExpressions: the node
\* the rewrite function was given and the node built from it
Rebuilt(before, after, s, finalize) ==
    [fn |-> "WithExpressions", node |-> before, sq |-> NilExpr, scope |-> s,
     subScope |-> s, finalize |-> finalize, body |-> NilNode, same |-> TRUE,
     err |-> NoErr, nested |-> 0,
     ctx |-> [opened |-> FALSE, ran |-> "ctx", cancelled |-> FALSE],
     ret |-> [node |-> after, same |-> FALSE, err |-> NoErr]]

\* the context of one recursive analysis: whether the invocation opened a
\* sub-context (ctx.NewSubContext()), the context handed to the analyzer, and
\* whether the sub-context was cancelled when the invocation returned
SubContext(cancelled) ==
    [opened |-> TRUE, ran |-> "subqueryCtx", cancelled |-> cancelled]
CallerContext == [opened |-> FALSE, ran |-> "ctx", cancelled |-> FALSE]

(***************************************************************************)
(* resolve_subqueries.go                                                   *)
(***************************************************************************)
Passthrough == {"QueryProcess", "StartTransaction", "TransactionCommittingNode"}

\* mutant: only a QueryProcess is taken off
RECURSIVE StripPassthroughNodes_OnlyQueryProcess(_)
StripPassthroughNodes_OnlyQueryProcess(n) ==
    IF n.kind = "QueryProcess"
    THEN StripPassthroughNodes_OnlyQueryProcess(n.children[1])
    ELSE n

\* mutant: one wrapper is taken off, without looking at what it held
StripPassthroughNodes_OneLayer(n) ==
    IF n.kind \in Passthrough THEN n.children[1] ELSE n

RECURSIVE StripPassthroughNodes(_)
StripPassthroughNodes(n) ==
    IF n.kind \in {"QueryProcess", "StartTransaction", "TransactionCommittingNode"}
    THEN StripPassthroughNodes(n.children[1])
    ELSE n

\* analyzeSubqueryExpression with the set of deferred errors deferSet and the
\* deferral made also in the finalize phase when always is TRUE
analyzeSubqueryExpressionVariant(n, sq, s, an, finalize, deferSet, always) ==
    LET subScope == newScope(s, n)
    IN
    Bind(analyzeWithSelector(sq.query, subScope, an, sq.name, finalize), LAMBDA a :
    LET og == WithQuery(sq, a.orig)
        r == IF a.err # NoErr
             THEN IF (always \/ ~finalize) /\ a.err \in deferSet
                  THEN Res(WithQuery(og, a.node), FALSE, NoErr, <<>>, og)
                  ELSE Res(NilExpr, TRUE, a.err, <<>>, og)
             ELSE Res(WithQuery(og, StripPassthroughNodes(a.node)), FALSE, NoErr,
                      <<>>, og)
    \* defer cancelFunc() runs on every return
    IN  Logged(r, "analyzeSubqueryExpression", n, sq, s, subScope, finalize, a,
               SubContext(TRUE)))

\* mutant: ErrColumnNotFound is not deferred
analyzeSubqueryExpression_NoColumnDeferral(n, sq, s, an, finalize) ==
    analyzeSubqueryExpressionVariant(n, sq, s, an, finalize,
        {"ErrValidationResolved", "ErrTableColumnNotFound"}, FALSE)

\* mutant: the finalize flag is not looked at
analyzeSubqueryExpression_DeferInFinalize(n, sq, s, an, finalize) ==
    analyzeSubqueryExpressionVariant(n, sq, s, an, finalize, Deferrable, TRUE)

\* mutant: cancelFunc is called before the last return only
analyzeSubqueryExpression_CancelOnSuccess(n, sq, s, an, finalize) ==
    LET subScope == newScope(s, n)
    IN
    Bind(analyzeWithSelector(sq.query, subScope, an, sq.name, finalize), LAMBDA a :
    LET og == WithQuery(sq, a.orig)
        r == IF a.err # NoErr
             THEN IF ~finalize /\ a.err \in Deferrable
                  THEN Res(WithQuery(og, a.node), FALSE, NoErr, <<>>, og)
                  ELSE Res(NilExpr, TRUE, a.err, <<>>, og)
             ELSE Res(WithQuery(og, StripPassthroughNodes(a.node)), FALSE, NoErr,
                      <<>>, og)
    IN  Logged(r, "analyzeSubqueryExpression", n, sq, s, subScope, finalize, a,
               SubContext(a.err = NoErr)))

analyzeSubqueryExpression(n, sq, s, an, finalize) ==
    LET subScope == newScope(s, n)
    IN
    Bind(analyzeWithSelector(sq.query, subScope, an, sq.name, finalize), LAMBDA a :
    LET og == WithQuery(sq, a.orig)
        r == IF a.err # NoErr
             THEN IF ~finalize /\ a.err \in Deferrable
                  THEN Res(WithQuery(og, a.node), FALSE, NoErr, <<>>, og)
                  ELSE Res(NilExpr, TRUE, a.err, <<>>, og)
             ELSE Res(WithQuery(og, StripPassthroughNodes(a.node)), FALSE, NoErr,
                      <<>>, og)
    \* defer cancelFunc() runs on every return
    IN  Logged(r, "analyzeSubqueryExpression", n, sq, s, subScope, finalize, a,
               SubContext(TRUE)))

\* analyzeSubqueryAlias changed in one place, named by v
analyzeSubqueryAliasVariant(n, s, an, finalize, v) ==
    LET outer == ~s.isNil /\ Len(s.nodes) > 0
        d == IF v = "depth" THEN RecursionDepth(s) ELSE RecursionDepth(s) + 1
        subScope == IF v = "lateral"
                    THEN [newScopeWithDepth(d) EXCEPT !.nodes = <<n>> \o InnerToOuter(s)]
                    ELSE IF outer
                    THEN [newScopeWithDepth(d) EXCEPT !.nodes = InnerToOuter(s)]
                    ELSE newScopeWithDepth(d)
        n1 == IF v = "visible" THEN [n EXCEPT !.vis = TRUE]
              ELSE IF v = "reset" THEN [n EXCEPT !.vis = outer]
              ELSE IF outer THEN [n EXCEPT !.vis = TRUE] ELSE n
    IN
    Bind(IF finalize
         THEN analyzeStartingAtBatch(n.children[1], subScope, an, n.name)
         ELSE analyzeThroughBatch(n.children[1], subScope, an, n.name), LAMBDA a :
    LET og == [n1 EXCEPT !.children = <<a.orig>>]
        mismatch == n.cols > 0 /\ schemaLength(a.node) # n.cols
        r == IF v = "countFirst" /\ mismatch
             THEN Res(NilNode, TRUE, "ErrColumnCountMismatch", <<>>, og)
             ELSE IF v = "defer" /\ ~finalize /\ a.err \in Deferrable
             THEN Res([og EXCEPT !.children = <<a.node>>], FALSE, NoErr, <<>>, og)
             ELSE IF a.err # NoErr THEN Res(NilNode, a.same, a.err, <<>>, og)
             ELSE IF v = "sameFirst" /\ a.same THEN Res(og, TRUE, NoErr, <<>>, og)
             ELSE IF mismatch
             THEN Res(NilNode, TRUE, "ErrColumnCountMismatch", <<>>, og)
             ELSE IF a.same THEN Res(og, TRUE, NoErr, <<>>, og)
             ELSE Res([og EXCEPT !.children = <<StripPassthroughNodes(a.node)>>],
                      FALSE, NoErr, <<>>, og)
    IN  Logged(r, "analyzeSubqueryAlias", n, NilExpr, s, subScope, finalize, a,
               CallerContext))

\* mutant: in the tentative phase a deferrable error is swallowed and the
\* partial result kept, as analyzeSubqueryExpression does
analyzeSubqueryAlias_Deferring(n, s, an, finalize) ==
    analyzeSubqueryAliasVariant(n, s, an, finalize, "defer")

\* mutant: an unchanged body is returned before the columns are counted
analyzeSubqueryAlias_SameFirst(n, s, an, finalize) ==
    analyzeSubqueryAliasVariant(n, s, an, finalize, "sameFirst")

\* mutant: the columns are counted before the error of the analysis is looked at
analyzeSubqueryAlias_CountFirst(n, s, an, finalize) ==
    analyzeSubqueryAliasVariant(n, s, an, finalize, "countFirst")

\* mutant: the SubqueryAlias itself is put in front of the scope of its body
analyzeSubqueryAlias_Lateral(n, s, an, finalize) ==
    analyzeSubqueryAliasVariant(n, s, an, finalize, "lateral")

\* mutant: the depth is not incremented
analyzeSubqueryAlias_SameDepth(n, s, an, finalize) ==
    analyzeSubqueryAliasVariant(n, s, an, finalize, "depth")

\* mutant: the visibility is written under every scope
analyzeSubqueryAlias_AlwaysVisible(n, s, an, finalize) ==
    analyzeSubqueryAliasVariant(n, s, an, finalize, "visible")

\* mutant: the visibility is taken back under an empty scope
analyzeSubqueryAlias_ResetVisibility(n, s, an, finalize) ==
    analyzeSubqueryAliasVariant(n, s, an, finalize, "reset")

analyzeSubqueryAlias(n, s, an, finalize) ==
    LET outer == ~s.isNil /\ Len(s.nodes) > 0
        subScope == IF outer
                    THEN [newScopeWithDepth(RecursionDepth(s) + 1)
                            EXCEPT !.nodes = InnerToOuter(s)]
                    ELSE newScopeWithDepth(RecursionDepth(s) + 1)
        \* n.OuterScopeVisibility = true, on the node passed in
        n1 == IF outer THEN [n EXCEPT !.vis = TRUE] ELSE n
    IN
    Bind(IF finalize
         THEN analyzeStartingAtBatch(n.children[1], subScope, an, n.name)
         ELSE analyzeThroughBatch(n.children[1], subScope, an, n.name), LAMBDA a :
    LET og == [n1 EXCEPT !.children = <<a.orig>>]
        r == IF a.err # NoErr THEN Res(NilNode, a.same, a.err, <<>>, og)
             ELSE IF n.cols > 0 /\ schemaLength(a.node) # n.cols
             THEN Res(NilNode, TRUE, "ErrColumnCountMismatch", <<>>, og)
             ELSE IF a.same THEN Res(og, TRUE, NoErr, <<>>, og)
             ELSE Res([og EXCEPT !.children = <<StripPassthroughNodes(a.node)>>],
                      FALSE, NoErr, <<>>, og)
    IN  Logged(r, "analyzeSubqueryAlias", n, NilExpr, s, subScope, finalize, a,
               CallerContext))

(***************************************************************************)
(* transform.Expr: bottom-up rewrite of one expression tree. The rewrite   *)
(* function of the subquery rules analyzes Subquery expressions and leaves *)
(* every other expression as it is.                                        *)
(***************************************************************************)
RECURSIVE transformExpr(_, _, _, _, _)
RECURSIVE transformExprChildren(_, _, _, _, _, _, _)

\* acc: out the expressions so far, origs the originals after the calls
transformExprChildren(es, i, n, s, an, finalize, acc) ==
    IF i > Len(es) \/ acc.err # NoErr THEN acc
    ELSE Bind(transformExpr(es[i], n, s, an, finalize), LAMBDA r :
         Bind([out |-> Append(acc.out, IF r.same THEN r.orig ELSE r.node),
               origs |-> Append(acc.origs, r.orig),
               same |-> acc.same /\ r.same,
               err |-> r.err,
               calls |-> acc.calls \o r.calls], LAMBDA next :
         transformExprChildren(es, i + 1, n, s, an, finalize, next)))

\* the originals of a list after a walk that may have stopped early
Originals(es, origs) == origs \o SubSeq(es, Len(origs) + 1, Len(es))

subqueryExprFunc(e, n, s, an, finalize) ==
    IF e.kind = "Subquery"
    THEN analyzeSubqueryExpression(n, e, s, an, finalize)
    ELSE Res(e, TRUE, NoErr, <<>>, e)

transformExpr(e, n, s, an, finalize) ==
    IF Len(e.args) = 0 THEN subqueryExprFunc(e, n, s, an, finalize)
    ELSE Bind(transformExprChildren(e.args, 1, n, s, an, finalize,
                    [out |-> <<>>, origs |-> <<>>, same |-> TRUE,
                     err |-> NoErr, calls |-> <<>>]), LAMBDA c :
         LET og == [e EXCEPT !.args = Originals(e.args, c.origs)]
             cur == IF c.same THEN og ELSE [og EXCEPT !.args = c.out]
         IN  IF c.err # NoErr THEN Res(NilExpr, TRUE, c.err, c.calls, og)
             ELSE Bind(subqueryExprFunc(cur, n, s, an, finalize), LAMBDA r :
                  IF r.err # NoErr
                  THEN Res(NilExpr, TRUE, r.err, c.calls \o r.calls, og)
                  ELSE Res(r.node, c.same /\ r.same, NoErr,
                           c.calls \o r.calls, og)))

(***************************************************************************)
(* The rewrite function of resolveSubqueries and finalizeSubqueries        *)
(***************************************************************************)
RECURSIVE rewriteExprs(_, _, _, _, _, _, _)

\* the loop over expressioner.Expressions(): newExprs[i] is replaced only
\* where the identity is NewTree, and the first error ends the loop
rewriteExprs(exprs, i, n, s, an, finalize, acc) ==
    IF i > Len(exprs) \/ acc.err # NoErr THEN acc
    ELSE Bind(transformExpr(exprs[i], n, s, an, finalize), LAMBDA r :
         Bind([out |-> Append(acc.out, IF r.same THEN r.orig ELSE r.node),
               origs |-> Append(acc.origs, r.orig),
               same |-> acc.same /\ r.same,
               err |-> r.err,
               calls |-> acc.calls \o r.calls], LAMBDA next :
         rewriteExprs(exprs, i + 1, n, s, an, finalize, next)))

\* mutant: an expression-bearing node is rebuilt whether or not an expression
\* changed
ctxFunc_AlwaysRebuild(n, s, an, finalize) ==
    IF n.kind = "SubqueryAlias" THEN analyzeSubqueryAlias(n, s, an, finalize)
    ELSE IF IsExpressioner(n)
    THEN Bind(rewriteExprs(n.exprs, 1, n, s, an, finalize,
                    [out |-> <<>>, origs |-> <<>>, same |-> TRUE,
                     err |-> NoErr, calls |-> <<>>]), LAMBDA x :
         LET og == [n EXCEPT !.exprs = Originals(n.exprs, x.origs)]
         IN  IF x.err # NoErr THEN Res(og, TRUE, x.err, x.calls, og)
             ELSE Res([og EXCEPT !.exprs = x.out], FALSE, NoErr, x.calls, og))
    ELSE Res(n, TRUE, NoErr, <<>>, n)

RECURSIVE rewriteExprs_Rebuilding(_, _, _, _, _, _, _)
\* the loop with the node rebuilt after every expression that changed
rewriteExprs_Rebuilding(exprs, i, n, s, an, finalize, acc) ==
    IF i > Len(exprs) \/ acc.err # NoErr THEN acc
    ELSE Bind(transformExpr(exprs[i], n, s, an, finalize), LAMBDA r :
         LET out == Append(acc.out, IF r.same THEN r.orig ELSE r.node)
             origs == Append(acc.origs, r.orig)
             before == [n EXCEPT !.exprs =
                          acc.out \o <<r.orig>> \o SubSeq(exprs, i + 1, Len(exprs))]
             after == [n EXCEPT !.exprs = out \o SubSeq(exprs, i + 1, Len(exprs))]
         IN
         Bind([out |-> out, origs |-> origs,
               same |-> acc.same /\ r.same,
               err |-> r.err,
               calls |-> acc.calls \o r.calls \o
                         (IF r.err = NoErr /\ ~r.same
                          THEN <<Rebuilt(before, after, s, finalize)>>
                          ELSE <<>>)], LAMBDA next :
         rewriteExprs_Rebuilding(exprs, i + 1, n, s, an, finalize, next)))

\* mutant: one WithExpressions per expression that changed
ctxFunc_RebuildPerExpression(n, s, an, finalize) ==
    IF n.kind = "SubqueryAlias" THEN analyzeSubqueryAlias(n, s, an, finalize)
    ELSE IF IsExpressioner(n)
    THEN Bind(rewriteExprs_Rebuilding(n.exprs, 1, n, s, an, finalize,
                    [out |-> <<>>, origs |-> <<>>, same |-> TRUE,
                     err |-> NoErr, calls |-> <<>>]), LAMBDA x :
         LET og == [n EXCEPT !.exprs = Originals(n.exprs, x.origs)]
         IN  IF x.err # NoErr THEN Res(og, TRUE, x.err, x.calls, og)
             ELSE IF ~x.same
             THEN Res([og EXCEPT !.exprs = x.out], FALSE, NoErr, x.calls, og)
             ELSE Res(og, TRUE, NoErr, x.calls, og))
    ELSE Res(n, TRUE, NoErr, <<>>, n)

\* ctxFunc of resolveSubqueries (finalize FALSE) and finalizeSubqueries (TRUE)
ctxFunc(n, s, an, finalize) ==
    IF n.kind = "SubqueryAlias" THEN analyzeSubqueryAlias(n, s, an, finalize)
    ELSE IF IsExpressioner(n)
    THEN Bind(rewriteExprs(n.exprs, 1, n, s, an, finalize,
                    [out |-> <<>>, origs |-> <<>>, same |-> TRUE,
                     err |-> NoErr, calls |-> <<>>]), LAMBDA x :
         LET og == [n EXCEPT !.exprs = Originals(n.exprs, x.origs)]
             new == [og EXCEPT !.exprs = x.out]
         IN  IF x.err # NoErr THEN Res(og, TRUE, x.err, x.calls, og)
             ELSE IF ~x.same
             \* newExprs != nil: expressioner.WithExpressions(newExprs...), once
             THEN Res(new, FALSE, NoErr,
                      Append(x.calls, Rebuilt(og, new, s, finalize)), og)
             ELSE Res(og, TRUE, NoErr, x.calls, og))
    ELSE Res(n, TRUE, NoErr, <<>>, n)

\* mutant: every child is walked
selectorFunc_Everywhere(parent) == TRUE

\* selectorFunc of both rules: no descent below a SubqueryAlias
selectorFunc(parent) == parent.kind # "SubqueryAlias"

(***************************************************************************)
(* transform.NodeWithCtx: children first, where the selector admits them,  *)
(* then the node itself, rebuilt if a child changed                        *)
(***************************************************************************)
RECURSIVE nodeWithCtxHelper(_, _, _, _)
RECURSIVE nodeWithCtxChildren(_, _, _, _, _, _)

nodeWithCtxChildren(n, i, s, an, finalize, acc) ==
    IF i > Len(n.children) \/ acc.err # NoErr THEN acc
    ELSE IF ~selectorFunc(n)
    THEN Bind([acc EXCEPT !.out = Append(@, n.children[i]),
                          !.origs = Append(@, n.children[i])], LAMBDA next :
         nodeWithCtxChildren(n, i + 1, s, an, finalize, next))
    ELSE Bind(nodeWithCtxHelper(n.children[i], s, an, finalize), LAMBDA r :
         Bind([out |-> Append(acc.out, IF r.same THEN r.orig ELSE r.node),
               origs |-> Append(acc.origs, r.orig),
               same |-> acc.same /\ r.same,
               err |-> r.err,
               calls |-> acc.calls \o r.calls], LAMBDA next :
         nodeWithCtxChildren(n, i + 1, s, an, finalize, next)))

\* mutant: the identity reported for a node is the one of its own rewrite
nodeWithCtxHelper_OwnIdentity(n, s, an, finalize) ==
    IF Len(n.children) = 0 THEN ctxFunc(n, s, an, finalize)
    ELSE Bind(nodeWithCtxChildren(n, 1, s, an, finalize,
                    [out |-> <<>>, origs |-> <<>>, same |-> TRUE,
                     err |-> NoErr, calls |-> <<>>]), LAMBDA c :
         LET og == [n EXCEPT !.children = Originals(n.children, c.origs)]
             cur == IF c.same THEN og ELSE [og EXCEPT !.children = c.out]
         IN  IF c.err # NoErr THEN Res(NilNode, TRUE, c.err, c.calls, og)
             ELSE Bind(ctxFunc(cur, s, an, finalize), LAMBDA r :
                  LET og2 == IF c.same THEN r.orig
                             ELSE [og EXCEPT !.exprs = r.orig.exprs]
                  IN  IF r.err # NoErr
                      THEN Res(NilNode, TRUE, r.err, c.calls \o r.calls, og2)
                      ELSE Res(r.node, r.same, NoErr, c.calls \o r.calls, og2)))

nodeWithCtxHelper(n, s, an, finalize) ==
    IF Len(n.children) = 0 THEN ctxFunc(n, s, an, finalize)
    ELSE Bind(nodeWithCtxChildren(n, 1, s, an, finalize,
                    [out |-> <<>>, origs |-> <<>>, same |-> TRUE,
                     err |-> NoErr, calls |-> <<>>]), LAMBDA c :
         LET og == [n EXCEPT !.children = Originals(n.children, c.origs)]
             cur == IF c.same THEN og ELSE [og EXCEPT !.children = c.out]
         IN  IF c.err # NoErr THEN Res(NilNode, TRUE, c.err, c.calls, og)
             ELSE Bind(ctxFunc(cur, s, an, finalize), LAMBDA r :
                  \* a rebuilt node shares its expressions with the original
                  LET og2 == IF c.same THEN r.orig
                             ELSE [og EXCEPT !.exprs = r.orig.exprs]
                  IN  IF r.err # NoErr
                      THEN Res(NilNode, TRUE, r.err, c.calls \o r.calls, og2)
                      ELSE Res(r.node, c.same /\ r.same, NoErr,
                               c.calls \o r.calls, og2)))

resolveSubqueries(n, s, an) == nodeWithCtxHelper(n, s, an, FALSE)

finalizeSubqueries(n, s, an) == nodeWithCtxHelper(n, s, an, TRUE)

(***************************************************************************)
(* Cacheability of subquery expressions                                    *)
(***************************************************************************)
RECURSIVE NodeResolved(_)
RECURSIVE ExprResolved(_)
\* Node.Resolved(): no unresolved node or expression below
NodeResolved(n) ==
    /\ n.kind # "UnresolvedTable"
    /\ \A i \in 1..Len(n.children) : NodeResolved(n.children[i])
    /\ \A i \in 1..Len(n.exprs) : ExprResolved(n.exprs[i])
\* Expression.Resolved(); a Subquery is resolved when its query is
ExprResolved(e) ==
    /\ e.kind = "Subquery" => NodeResolved(e.query)
    /\ \A i \in 1..Len(e.args) : ExprResolved(e.args[i])

\* sql.NonDeterministicExpression with IsNonDeterministic() true
IsNonDeterministic(e) == e.kind = "Rand"

RECURSIVE exprIsCacheable(_, _)
\* mutant: a field at the boundary counts as below it
exprIsCacheable_AtBoundary(expr, lowestAllowedIdx) ==
    /\ ~(expr.kind = "GetField" /\ expr.idx <= lowestAllowedIdx)
    /\ ~IsNonDeterministic(expr)
    /\ \A i \in 1..Len(expr.args) : exprIsCacheable(expr.args[i], lowestAllowedIdx)

\* sql.Inspect walks the expression and its child expressions
exprIsCacheable(expr, lowestAllowedIdx) ==
    /\ ~(expr.kind = "GetField" /\ expr.idx < lowestAllowedIdx)
    /\ ~IsNonDeterministic(expr)
    /\ \A i \in 1..Len(expr.args) : exprIsCacheable(expr.args[i], lowestAllowedIdx)

RECURSIVE nodeIsCacheable(_, _)
\* transform.Inspect walks the node and its child nodes
nodeIsCacheable(n, lowestAllowedIdx) ==
    IF IsExpressioner(n)
    THEN /\ \A i \in 1..Len(n.exprs) : exprIsCacheable(n.exprs[i], lowestAllowedIdx)
         /\ \A i \in 1..Len(n.children) : nodeIsCacheable(n.children[i], lowestAllowedIdx)
    ELSE IF n.kind = "SubqueryAlias" THEN FALSE
    ELSE \A i \in 1..Len(n.children) : nodeIsCacheable(n.children[i], lowestAllowedIdx)

\* one entry of the log of cacheSubqueryResults: the Subquery s met in node n,
\* the boundary computed for it and the decision
Decision(n, sq, scopeLen, cacheable) ==
    [fn |-> "cacheSubqueryResults", node |-> n, sq |-> sq, scopeLen |-> scopeLen,
     cacheable |-> cacheable]

\* the function cacheSubqueryResults hands to transform.NodeExprsWithNode
cacheFunc(n, e, s) ==
    IF e.kind # "Subquery" \/ ~ExprResolved(e) THEN Res(e, TRUE, NoErr, <<>>, e)
    ELSE LET scopeLen == ScopeSchemaLen(newScope(s, n))
             cacheable == nodeIsCacheable(e.query, scopeLen)
             log == <<Decision(n, e, scopeLen, cacheable)>>
         IN  IF cacheable THEN Res(WithCachedResults(e), FALSE, NoErr, log, e)
             ELSE Res(e, TRUE, NoErr, log, e)

RECURSIVE cacheExpr(_, _, _)
RECURSIVE cacheExprs(_, _, _, _, _)
RECURSIVE nodeExprsWithNode(_, _)
RECURSIVE cacheChildren(_, _, _, _)

\* the expressions es from the i-th on, rewritten in order
cacheExprs(es, i, n, s, acc) ==
    IF i > Len(es) THEN acc
    ELSE Bind(cacheExpr(es[i], n, s), LAMBDA r :
         Bind([out |-> Append(acc.out, r.node), same |-> acc.same /\ r.same,
               calls |-> acc.calls \o r.calls], LAMBDA next :
         cacheExprs(es, i + 1, n, s, next)))

\* transform.Expr with cacheFunc: child expressions first, then e itself
cacheExpr(e, n, s) ==
    Bind(cacheExprs(e.args, 1, n, s, [out |-> <<>>, same |-> TRUE, calls |-> <<>>]),
         LAMBDA c :
    Bind(cacheFunc(n, IF c.same THEN e ELSE [e EXCEPT !.args = c.out], s),
         LAMBDA r :
    Res(r.node, c.same /\ r.same, NoErr, c.calls \o r.calls, e)))

\* the children ns from the i-th on, rewritten in order
cacheChildren(ns, i, s, acc) ==
    IF i > Len(ns) THEN acc
    ELSE Bind(nodeExprsWithNode(ns[i], s), LAMBDA r :
         Bind([out |-> Append(acc.out, r.node), same |-> acc.same /\ r.same,
               calls |-> acc.calls \o r.calls], LAMBDA next :
         cacheChildren(ns, i + 1, s, next)))

\* transform.NodeExprsWithNode with cacheFunc: child nodes first, then the
\* expressions of the node, the node rebuilt once if any of them changed
nodeExprsWithNode(n, s) ==
    Bind(cacheChildren(n.children, 1, s,
                       [out |-> <<>>, same |-> TRUE, calls |-> <<>>]), LAMBDA c :
    LET cur == IF c.same THEN n ELSE [n EXCEPT !.children = c.out]
    IN
    Bind(cacheExprs(cur.exprs, 1, cur, s,
                    [out |-> <<>>, same |-> TRUE, calls |-> <<>>]), LAMBDA x :
    LET new == IF x.same THEN cur ELSE [cur EXCEPT !.exprs = x.out]
    IN  Res(new, c.same /\ x.same, NoErr, c.calls \o x.calls, n)))

\* mutant: a trigger block at the root is walked like any other node
cacheSubqueryResults_NoTriggerCheck(n, s) == nodeExprsWithNode(n, s)

cacheSubqueryResults(n, s) ==
    IF n.kind = "TriggerBeginEndBlock" THEN Res(n, TRUE, NoErr, <<>>, n)
    ELSE nodeExprsWithNode(n, s)

(***************************************************************************)
(* Joins: caching of derived tables and the scope length of joins          *)
(***************************************************************************)
\* mutant: a SubqueryAlias below a CachedResults is wrapped as well
cacheSubqueryAlias_BelowCachedResults(n, parent) ==
    IF (IsJoinNode(parent) \/ parent.kind \in {"IndexedJoin", "CachedResults"})
       /\ n.kind = "SubqueryAlias"
    THEN [node |-> NewCachedResults(n), same |-> FALSE]
    ELSE [node |-> n, same |-> TRUE]

\* first pass of cacheSubqueryAlisesInJoins: a SubqueryAlias whose parent is a
\* join gets a CachedResults on top
cacheSubqueryAlias(n, parent) ==
    IF (IsJoinNode(parent) \/ parent.kind = "IndexedJoin")
       /\ n.kind = "SubqueryAlias"
    THEN [node |-> NewCachedResults(n), same |-> FALSE]
    ELSE [node |-> n, same |-> TRUE]

\* mutant: every child is walked
selector_AllChildren(parent, childNum) == TRUE

\* mutant: the second pass stops at a derived table
selector_NotBelowAlias(parent, childNum) ==
    IF parent.kind = "IndexedJoin" THEN childNum = 0
    ELSE IF IsJoinNode(parent)
    THEN IF IsRightJoin(parent) THEN childNum = 1 ELSE childNum = 0
    ELSE parent.kind # "SubqueryAlias"

\* selector of the second pass: below a join only the most primary child
\* (childNum counts from 0)
selector(parent, childNum) ==
    IF parent.kind = "IndexedJoin" THEN childNum = 0
    ELSE IF IsJoinNode(parent)
    THEN IF IsRightJoin(parent) THEN childNum = 1 ELSE childNum = 0
    ELSE TRUE

\* second pass: a CachedResults is replaced by its child
removeCachedResults(n) ==
    IF n.kind = "CachedResults"
    THEN [node |-> n.children[1], same |-> FALSE]
    ELSE [node |-> n, same |-> TRUE]

\* mutant: each child is looked at for itself
joinScopeLen_EachSide(n, scopeLen) ==
    IF IsJoinNode(n)
    THEN LET nj == WithScopeLen(n, scopeLen)
             wrap(c) == IF c.kind = "StripRowNode" THEN c
                        ELSE NewStripRowNode(c, scopeLen)
         IN  [node |-> [nj EXCEPT !.children =
                            <<wrap(nj.children[1]), wrap(nj.children[2])>>],
              same |-> FALSE]
    ELSE [node |-> n, same |-> TRUE]

\* the function setJoinScopeLen hands to transform.Node
joinScopeLen(n, scopeLen) ==
    IF IsJoinNode(n)
    THEN LET nj == WithScopeLen(n, scopeLen)
         IN  IF nj.children[1].kind # "StripRowNode"
             THEN [node |-> [nj EXCEPT !.children =
                                <<NewStripRowNode(nj.children[1], scopeLen),
                                  NewStripRowNode(nj.children[2], scopeLen)>>],
                   same |-> FALSE]
             ELSE [node |-> nj, same |-> FALSE]
    ELSE [node |-> n, same |-> TRUE]

\* the three walks of the join rules
Passes == {"cacheSubqueryAlias", "removeCachedResults", "joinScopeLen"}

walkSelects(pass, parent, childNum) ==
    IF pass = "removeCachedResults" THEN selector(parent, childNum) ELSE TRUE

walkFunc(pass, n, parent, scopeLen) ==
    CASE pass = "cacheSubqueryAlias" -> cacheSubqueryAlias(n, parent)
      [] pass = "removeCachedResults" -> removeCachedResults(n)
      [] OTHER -> joinScopeLen(n, scopeLen)

RECURSIVE walk(_, _, _, _)
RECURSIVE walkChildren(_, _, _, _, _)

\* the children of n from the i-th on: acc.out the children so far
walkChildren(n, i, pass, scopeLen, acc) ==
    IF i > Len(n.children) THEN acc
    ELSE IF ~walkSelects(pass, n, i - 1)
    THEN Bind([acc EXCEPT !.out = Append(@, n.children[i])], LAMBDA next :
         walkChildren(n, i + 1, pass, scopeLen, next))
    ELSE Bind(walk(n.children[i], n, pass, scopeLen), LAMBDA r :
         Bind([out |-> Append(acc.out, r.node), same |-> acc.same /\ r.same],
              LAMBDA next : walkChildren(n, i + 1, pass, scopeLen, next)))

\* transform.NodeWithCtx and transform.Node: the selected children first, the
\* node rebuilt around them if one changed, then the function on the node
walk(n, parent, pass, scopeLen) ==
    Bind(walkChildren(n, 1, pass, scopeLen, [out |-> <<>>, same |-> TRUE]),
         LAMBDA c :
    Bind(walkFunc(pass, IF c.same THEN n ELSE [n EXCEPT !.children = c.out],
                  parent, scopeLen), LAMBDA r :
    [node |-> r.node, same |-> c.same /\ r.same]))

cacheSubqueryAlisesInJoins(n, s) ==
    Bind(walk(n, NilNode, "cacheSubqueryAlias", 0), LAMBDA a :
    IF IsEmpty(s)
    THEN Bind(walk(a.node, NilNode, "removeCachedResults", 0), LAMBDA d :
         [node |-> d.node, same |-> a.same /\ d.same, err |-> NoErr])
    ELSE [node |-> a.node, same |-> a.same, err |-> NoErr])

setJoinScopeLen(n, s) ==
    LET scopeLen == ScopeSchemaLen(s)
    IN  IF scopeLen = 0 THEN [node |-> n, same |-> TRUE, err |-> NoErr]
        ELSE Bind(walk(n, NilNode, "joinScopeLen", scopeLen), LAMBDA r :
             [node |-> r.node, same |-> r.same, err |-> NoErr])

(***************************************************************************)
(* Queries: plans as the parser and the earlier rules hand them over       *)
(***************************************************************************)
RECURSIVE Nested(_)
\* plans whose subqueries nest k deep; the subquery at depth k from the
\* innermost one is named k
Nested(k) ==
    IF k = 0 THEN {ResolvedTable(1), ResolvedTable(2)}
    ELSE {SubqueryAlias(k, c, b, FALSE) : c \in {0, 1}, b \in Nested(k - 1)}
         \cup {Filter(Equals(GetField(0), Subquery(k, b)), ResolvedTable(2)) :
                 b \in Nested(k - 1)}
         \cup {Project(<<GetField(0)>>, SubqueryAlias(k, 0, b, FALSE)) :
                 b \in Nested(k - 1)}

\* plans without any subquery
Plain ==
    {Filter(Equals(GetField(0), Literal), ResolvedTable(2)),
     Project(<<GetField(1), Literal>>,
             Filter(Equals(GetField(0), Literal), ResolvedTable(2)))}

\* bodies of a subquery expression that differ in what decides caching
CacheInner ==
    {ResolvedTable(1),
     Filter(Equals(GetField(0), Literal), ResolvedTable(1)),
     Filter(Equals(Rand, Literal), ResolvedTable(1)),
     SubqueryAlias(1, 0, ResolvedTable(1), TRUE)}

CacheBodies ==
    {ResolvedTable(1), UnresolvedTable}
    \cup {Filter(Equals(GetField(i), Literal), ResolvedTable(1)) : i \in 0..MaxIdx}
    \cup {Filter(Equals(GetField(MaxIdx), Rand), ResolvedTable(1))}
    \cup {Project(<<GetField(MaxIdx)>>, SubqueryAlias(1, 0, ResolvedTable(1), v)) :
            v \in BOOLEAN}
    \cup {Filter(Equals(GetField(MaxIdx), Subquery(1, b)), ResolvedTable(1)) :
            b \in CacheInner}

CachePlans ==
    {Filter(Equals(GetField(0), Subquery(2, b)), ResolvedTable(2)) : b \in CacheBodies}

\* derived tables that an earlier analysis, under a scope holding nodes, has
\* given outer scope visibility
Revisited ==
    {SubqueryAlias(1, 0, ResolvedTable(1), TRUE),
     Project(<<GetField(0)>>, SubqueryAlias(1, 0, ResolvedTable(1), TRUE))}

\* trigger blocks at the root of the plan and below other nodes, holding a
\* subquery that may be cached and one that may not
TriggerBodies ==
    {Filter(Equals(GetField(0), Subquery(2, b)), ResolvedTable(2)) :
        b \in {ResolvedTable(1), Filter(Equals(Rand, Literal), ResolvedTable(1))}}

TriggerPlans ==
    {TriggerBeginEndBlock(f) : f \in TriggerBodies}
    \cup {TriggerExecutor(ResolvedTable(2), TriggerBeginEndBlock(f)) :
            f \in TriggerBodies}
    \cup {Project(<<GetField(0)>>,
                  TriggerExecutor(ResolvedTable(2), TriggerBeginEndBlock(f))) :
            f \in TriggerBodies}

\* nodes with several expressions, of which some hold a Subquery, at the
\* root and inside a derived table
SeveralExprs ==
    {Project(<<Subquery(1, ResolvedTable(1)), GetField(0),
               Subquery(2, ResolvedTable(1))>>, ResolvedTable(2)),
     Project(<<GetField(0), Subquery(1, ResolvedTable(1)), Literal>>,
             ResolvedTable(2)),
     SubqueryAlias(2, 0,
         Project(<<GetField(0), Subquery(1, ResolvedTable(1)), Literal>>,
                 ResolvedTable(2)), FALSE)}

Plans ==
    Plain \cup CachePlans \cup Revisited \cup TriggerPlans \cup SeveralExprs
    \cup UNION {Nested(k) : k \in 0..MaxNest}

RECURSIVE Sites(_)
RECURSIVE ExprSites(_)
\* the names of the subqueries of a plan, at every depth
Sites(n) ==
    (IF n.kind = "SubqueryAlias" THEN {n.name} ELSE {})
    \cup UNION {Sites(n.children[i]) : i \in 1..Len(n.children)}
    \cup UNION {ExprSites(n.exprs[i]) : i \in 1..Len(n.exprs)}
ExprSites(e) ==
    (IF e.kind = "Subquery" THEN {e.name} \cup Sites(e.query) ELSE {})
    \cup UNION {ExprSites(e.args[i]) : i \in 1..Len(e.args)}

Scopes ==
    {NilScope, newScopeWithDepth(1),
     [isNil |-> FALSE, nodes |-> <<ResolvedTable(1)>>, depth |-> 0]}

Result(r) == [node |-> r.node, same |-> r.same, err |-> r.err]

\* no batch is being evaluated
NoBatch ==
    [rules |-> <<>>, policy |-> "none", iterations |-> 0, i |-> 0,
     sames |-> <<>>, state |-> "idle"]

Init ==
    /\ input \in Plans
    /\ scope \in Scopes
    /\ analysis \in [{k % 2 : k \in Sites(input)} -> Outcomes]
    /\ op = "start"
    /\ res = [node |-> input, same |-> TRUE, err |-> NoErr]
    /\ calls = <<>>
    /\ orig = input
    /\ batch = NoBatch

\* one pass of the resolve_subqueries rule on the current plan
ResolveSubqueries ==
    /\ op \in {"start", "resolveSubqueries"}
    /\ res.err = NoErr
    /\ \E r \in {resolveSubqueries(res.node, scope, analysis)} :
           /\ input' = res.node
           /\ res' = Result(r)
           /\ calls' = r.calls
           /\ orig' = r.orig
    /\ op' = "resolveSubqueries"
    /\ UNCHANGED <<scope, analysis, batch>>

\* the finalize_subqueries rule, once, after the tentative passes
FinalizeSubqueries ==
    /\ op \in {"start", "resolveSubqueries"}
    /\ res.err = NoErr
    /\ \E r \in {finalizeSubqueries(res.node, scope, analysis)} :
           /\ input' = res.node
           /\ res' = Result(r)
           /\ calls' = r.calls
           /\ orig' = r.orig
    /\ op' = "finalizeSubqueries"
    /\ UNCHANGED <<scope, analysis, batch>>

\* the cache_subquery_results rule, after the subqueries are resolved
CacheSubqueryResults ==
    /\ op \in {"start", "finalizeSubqueries"}
    /\ res.err = NoErr
    /\ \E r \in {cacheSubqueryResults(res.node, scope)} :
           /\ input' = res.node
           /\ res' = Result(r)
           /\ calls' = r.calls
           /\ orig' = r.orig
    /\ op' = "cacheSubqueryResults"
    /\ UNCHANGED <<scope, analysis, batch>>

Next ==
    \/ ResolveSubqueries
    \/ FinalizeSubqueries
    \/ CacheSubqueryResults

Spec == Init /\ [][Next]_vars

(***************************************************************************)
(* Rule batches: an ordered list of rules, run once or to a fixpoint       *)
(* within a maximum number of iterations                                   *)
(***************************************************************************)
\* the rules a batch may hold: resolve_subqueries and three synthetic rules,
\* one that never changes the plan, one that alternates between two states
\* of the root, one that changes the root once and then leaves it alone
RuleNames == {"resolveSubqueries", "noop", "alternate", "settle"}

\* rule.Apply(ctx, a, n, scope, sel)
Apply(rule, n, s, an) ==
    CASE rule = "resolveSubqueries" -> Result(resolveSubqueries(n, s, an))
      [] rule = "alternate" ->
            [node |-> [n EXCEPT !.vis = ~@], same |-> FALSE, err |-> NoErr]
      [] rule = "settle" ->
            IF n.vis THEN [node |-> n, same |-> TRUE, err |-> NoErr]
            ELSE [node |-> [n EXCEPT !.vis = TRUE], same |-> FALSE, err |-> NoErr]
      [] OTHER -> [node |-> n, same |-> TRUE, err |-> NoErr]

RECURSIVE evalOnce(_, _, _, _, _)
\* one pass: the rules from the k-th on, in order, each on the result of the
\* one before; the pass reports a change when any rule did, and the first
\* error ends it
evalOnce(rules, k, acc, s, an) ==
    IF k > Len(rules) \/ acc.err # NoErr THEN acc
    ELSE Bind(Apply(rules[k], acc.node, s, an), LAMBDA r :
         Bind(IF r.err # NoErr
              THEN [node |-> acc.node, same |-> TRUE, err |-> r.err]
              ELSE [node |-> r.node, same |-> acc.same /\ r.same, err |-> NoErr],
              LAMBDA next : evalOnce(rules, k + 1, next, s, an)))

\* mutant: one pass more than the bound
IterationBoundReached_OneMore(b) == b.i > b.iterations

\* the iteration bound of the batch is used up
IterationBoundReached(b) == b.i >= b.iterations

\* a pass that reported no change ends a batch run to fixpoint; a batch run
\* once ends after its only pass
Converged(b, r) == r.same \/ b.policy = "once"

BatchRules ==
    {<<r>> : r \in RuleNames}
    \cup {<<"noop", "noop">>, <<"settle", "resolveSubqueries">>, <<"noop", "alternate">>}

BatchPlans == Plain \cup Nested(0) \cup Nested(1)

InitBatch ==
    /\ input \in BatchPlans
    /\ scope \in {NilScope, [isNil |-> FALSE, nodes |-> <<ResolvedTable(1)>>, depth |-> 0]}
    /\ analysis \in [{k % 2 : k \in Sites(input)} -> Outcomes]
    /\ op = "start"
    /\ res = [node |-> input, same |-> TRUE, err |-> NoErr]
    /\ calls = <<>>
    /\ orig = input
    /\ batch \in [rules : BatchRules, policy : {"once", "fixpoint"},
                   iterations : 1..MaxIterations, i : {0}, sames : {<<>>},
                   state : {"running"}]

\* one iteration of the batch
BatchPass ==
    /\ batch.state = "running"
    /\ ~IterationBoundReached(batch)
    /\ \E r \in {evalOnce(batch.rules, 1,
                            [node |-> res.node, same |-> TRUE, err |-> NoErr],
                            scope, analysis)} :
           /\ input' = res.node
           /\ res' = r
           /\ batch' = [batch EXCEPT
                            !.i = @ + 1,
                            !.sames = Append(@, r.same),
                            !.state = IF r.err # NoErr THEN "failed"
                                      ELSE IF Converged(batch, r) THEN "done"
                                      ELSE "running"]
    /\ op' = "Batch.Eval"
    /\ UNCHANGED <<scope, analysis, calls, orig>>

\* no fixpoint within the iteration bound: the engine error
BatchExhausted ==
    /\ batch.state = "running"
    /\ IterationBoundReached(batch)
    /\ res' = [res EXCEPT !.same = TRUE, !.err = "ErrMaxAnalysisIters"]
    /\ batch' = [batch EXCEPT !.state = "failed"]
    /\ op' = "Batch.Eval"
    /\ UNCHANGED <<input, scope, analysis, calls, orig>>

NextBatch ==
    \/ BatchPass
    \/ BatchExhausted

\* the engine evaluates a batch in one synchronous loop: a pass that can run
\* does run
SpecBatch == InitBatch /\ [][NextBatch]_vars /\ WF_vars(NextBatch)

(***************************************************************************)
(* The join rules on plans with joins                                      *)
(***************************************************************************)
JoinKinds == {"InnerJoin", "LeftJoin", "RightJoin", "IndexedJoin"}

Join(kind, left, right) ==
    IF kind = "IndexedJoin" THEN IndexedJoin(left, right)
    ELSE JoinNode(kind, left, right, 0)

\* what a join joins: a table, a derived table, a derived table already
\* cached and, under a scope of scopeLen > 0 columns, sides already stripped
JoinSides(scopeLen) ==
    LET sqa == SubqueryAlias(1, 0, ResolvedTable(1), FALSE)
    IN  {ResolvedTable(1), sqa, NewCachedResults(sqa)}
        \cup (IF scopeLen = 0 THEN {}
              ELSE {NewStripRowNode(ResolvedTable(1), scopeLen),
                    NewStripRowNode(sqa, scopeLen)})

TwoWayJoins(scopeLen) ==
    {Join(k, l, r) : k \in JoinKinds, l \in JoinSides(scopeLen),
                     r \in JoinSides(scopeLen)}

\* a CachedResults that is the child of no join: at the root, below a
\* Project, and in the body of a derived table on either side of a join
CachedElsewhere ==
    {NewCachedResults(SubqueryAlias(1, 0, ResolvedTable(1), FALSE)),
     Project(<<GetField(0)>>, NewCachedResults(ResolvedTable(1)))}
    \cup {Join(k, SubqueryAlias(2, 0, NewCachedResults(ResolvedTable(1)), FALSE),
                ResolvedTable(2)) : k \in JoinKinds}
    \cup {Join(k, ResolvedTable(2),
                SubqueryAlias(2, 0, NewCachedResults(ResolvedTable(1)), FALSE)) :
            k \in JoinKinds}

\* a join at the root, below a Project, inside a derived table, or as one
\* side of another join
JoinPlans(scopeLen) ==
    TwoWayJoins(scopeLen)
    \cup {Project(<<GetField(0)>>, j) : j \in TwoWayJoins(0)}
    \cup {SubqueryAlias(2, 0, j, FALSE) : j \in TwoWayJoins(0)}
    \cup {Join(k, j, SubqueryAlias(2, 0, ResolvedTable(2), FALSE)) :
            k \in {"InnerJoin", "RightJoin"}, j \in TwoWayJoins(0)}
    \cup {Join(k, NewCachedResults(SubqueryAlias(2, 0, ResolvedTable(2), FALSE)), j) :
            k \in {"LeftJoin", "RightJoin"}, j \in TwoWayJoins(0)}
    \cup CachedElsewhere

JoinScopes ==
    {NilScope, newScopeWithDepth(1)}
    \cup {[isNil |-> FALSE, nodes |-> <<ResolvedTable(c)>>, depth |-> 0] :
            c \in 1..MaxScopeLen}

InitJoin ==
    /\ scope \in JoinScopes
    /\ input \in JoinPlans(ScopeSchemaLen(scope))
    /\ analysis = <<>>
    /\ op = "start"
    /\ res = [node |-> input, same |-> TRUE, err |-> NoErr]
    /\ calls = <<>>
    /\ orig = input
    /\ batch = NoBatch

\* the cache_subquery_aliases_in_joins rule on the current plan
CacheSubqueryAlisesInJoins ==
    /\ \E r \in {cacheSubqueryAlisesInJoins(res.node, scope)} :
           /\ input' = res.node
           /\ res' = r
    /\ op' = "cacheSubqueryAlisesInJoins"
    /\ UNCHANGED <<scope, analysis, calls, orig, batch>>

\* the set_join_scope_len rule on the current plan
SetJoinScopeLen ==
    /\ \E r \in {setJoinScopeLen(res.node, scope)} :
           /\ input' = res.node
           /\ res' = r
    /\ op' = "setJoinScopeLen"
    /\ UNCHANGED <<scope, analysis, calls, orig, batch>>

NextJoin ==
    \/ CacheSubqueryAlisesInJoins
    \/ SetJoinScopeLen

SpecJoin == InitJoin /\ [][NextJoin]_vars

(***************************************************************************)
(* Properties                                                              *)
(***************************************************************************)
LastCall == calls[Len(calls)]

IsExprCall(c) == c.fn = "analyzeSubqueryExpression"
IsAliasCall(c) == c.fn = "analyzeSubqueryAlias"
IsRebuild(c) == c.fn = "WithExpressions"

\* the entries of the log that are recursive analyses
Analyses == {i \in 1..Len(calls) : IsExprCall(calls[i]) \/ IsAliasCall(calls[i])}

Returned(node, same, err) == [node |-> node, same |-> same, err |-> err]

\* an error of the last recursive analysis is the error of the rule, with no plan
ErrorReachesCaller ==
    /\ res.err # NoErr => Len(calls) > 0 /\ LastCall.ret.err = res.err
    /\ (Len(calls) > 0 /\ LastCall.ret.err # NoErr) =>
          /\ res.err = LastCall.ret.err
          /\ res.same
          /\ res.node \in {NilNode, orig}

\* C1: in the tentative phase an error of the analysis of a Subquery body is
\* swallowed exactly when it is ErrValidationResolved, ErrTableColumnNotFound or
\* ErrColumnNotFound: then the Subquery is returned rewrapped around the partial
\* result, with NewTree and no error. Any other error is returned unchanged,
\* with no expression, and reaches the caller of resolveSubqueries.
C1_TentativeDeferral ==
    op = "resolveSubqueries" =>
        /\ \A i \in 1..Len(calls) :
              (IsExprCall(calls[i]) /\ calls[i].err # NoErr) =>
                  /\ ~calls[i].finalize
                  /\ calls[i].ret =
                        IF calls[i].err \in Deferrable
                        THEN Returned(WithQuery(calls[i].sq, calls[i].body), FALSE, NoErr)
                        ELSE Returned(NilExpr, TRUE, calls[i].err)
        /\ ErrorReachesCaller

C1_Witness ==
    /\ op = "resolveSubqueries"
    /\ res.err = NoErr
    /\ ~res.same
    /\ \E i \in 1..Len(calls) :
          /\ IsExprCall(calls[i])
          /\ calls[i].err \in Deferrable
          /\ calls[i].ret.err = NoErr

\* C2 as stated: resolveSubqueries never returns a deferrable error raised
\* while the body of a SubqueryAlias was analyzed.
C2_AliasErrorDeferred ==
    op = "resolveSubqueries" =>
        ~(/\ res.err \in Deferrable
          /\ Len(calls) > 0
          /\ IsAliasCall(LastCall)
          /\ LastCall.err = res.err)

\* C2 amended: in the tentative phase an error raised while the body of a
\* SubqueryAlias is analyzed, deferrable or not, is returned by
\* analyzeSubqueryAlias with no node and is the error resolveSubqueries returns.
C2_AliasErrorReturned ==
    op = "resolveSubqueries" =>
        \A i \in 1..Len(calls) :
            (IsAliasCall(calls[i]) /\ calls[i].err # NoErr) =>
                /\ ~calls[i].finalize
                /\ calls[i].ret = Returned(NilNode, calls[i].same, calls[i].err)
                /\ res.err = calls[i].err

C2_Witness ==
    /\ op = "resolveSubqueries"
    /\ res.err \in Deferrable
    /\ Len(calls) > 0
    /\ IsAliasCall(LastCall)
    /\ ~LastCall.finalize
    /\ LastCall.err = res.err
    /\ LastCall.ret.node = NilNode

\* C3: in the finalize phase every error of the analysis of a subquery
\* expression body or of a derived table body, deferrable or not, is returned
\* by the function that started the analysis and by finalizeSubqueries itself,
\* with SameTree and no rewritten plan.
C3_FinalizePropagates ==
    op = "finalizeSubqueries" =>
        /\ \A i \in 1..Len(calls) :
              (calls[i].finalize /\ calls[i].err # NoErr) =>
                  /\ calls[i].ret.err = calls[i].err
                  /\ calls[i].ret.node =
                        (IF IsExprCall(calls[i]) THEN NilExpr ELSE NilNode)
                  /\ res.err # NoErr
        /\ ErrorReachesCaller

C3_Witness ==
    /\ op = "finalizeSubqueries"
    /\ res.err \in Deferrable
    /\ res.node = NilNode
    /\ Len(calls) > 0
    /\ IsExprCall(LastCall)
    /\ LastCall.finalize
    /\ LastCall.err = res.err

\* C4: a SubqueryAlias with declared columns whose analyzed body has another
\* number of columns gets ErrColumnCountMismatch, SameTree and no node, in the
\* tentative and in the finalize phase, also when the analysis reported SameTree.
C4_ColumnCountMismatch ==
    op \in {"resolveSubqueries", "finalizeSubqueries"} =>
        \A i \in 1..Len(calls) :
            (/\ IsAliasCall(calls[i])
             /\ calls[i].err = NoErr
             /\ calls[i].node.cols > 0
             /\ SchemaLen(calls[i].body) # calls[i].node.cols) =>
                /\ calls[i].ret = Returned(NilNode, TRUE, "ErrColumnCountMismatch")
                /\ res.err = "ErrColumnCountMismatch"

C4_Witness ==
    /\ op = "resolveSubqueries"
    /\ res.err = "ErrColumnCountMismatch"
    /\ Len(calls) > 0
    /\ IsAliasCall(LastCall)
    /\ LastCall.same
    /\ LastCall.err = NoErr
    /\ LastCall.node.cols > 0
    /\ SchemaLen(LastCall.body) # LastCall.node.cols

\* C5 as stated: a derived table whose declared column count differs from the
\* number of columns of its body gets the column count error whatever the
\* analysis of the body does.
C5_MismatchBeforeAnalysis ==
    \A i \in 1..Len(calls) :
        (/\ IsAliasCall(calls[i])
         /\ calls[i].node.cols > 0
         /\ SchemaLen(calls[i].node.children[1]) # calls[i].node.cols) =>
            calls[i].ret.err = "ErrColumnCountMismatch"

\* C5 amended: the body is analyzed first. An error of that analysis is the
\* one returned; the column count error is returned only after an analysis
\* without error, for declared columns that differ from the analyzed body's.
C5_MismatchAfterAnalysis ==
    \A i \in 1..Len(calls) :
        IsAliasCall(calls[i]) =>
            /\ calls[i].err # NoErr => calls[i].ret.err = calls[i].err
            /\ (calls[i].err = NoErr /\ calls[i].ret.err # NoErr) =>
                  /\ calls[i].ret.err = "ErrColumnCountMismatch"
                  /\ calls[i].node.cols > 0
                  /\ SchemaLen(calls[i].body) # calls[i].node.cols

C5_Witness ==
    /\ op \in {"resolveSubqueries", "finalizeSubqueries"}
    /\ Len(calls) > 0
    /\ IsAliasCall(LastCall)
    /\ LastCall.node.cols > 0
    /\ SchemaLen(LastCall.node.children[1]) # LastCall.node.cols
    /\ LastCall.err = "ErrTableNotFound"
    /\ res.err = "ErrTableNotFound"

RECURSIVE SubqueriesOf(_)
\* the Subquery expressions of the expression tree of e
SubqueriesOf(e) ==
    (IF e.kind = "Subquery" THEN {e} ELSE {})
    \cup UNION {SubqueriesOf(e.args[i]) : i \in 1..Len(e.args)}

NodeSubqueries(n) == UNION {SubqueriesOf(n.exprs[i]) : i \in 1..Len(n.exprs)}

RECURSIVE TopSubqueries(_)
\* the Subquery expressions held by the nodes of plan n, each with its node
TopSubqueries(n) ==
    {[node |-> n, sq |-> q] : q \in NodeSubqueries(n)}
    \cup UNION {TopSubqueries(n.children[i]) : i \in 1..Len(n.children)}

RECURSIVE DeepNodes(_)
\* every node of plan n, the bodies of its subquery expressions included
DeepNodes(n) ==
    {n}
    \cup UNION {DeepNodes(n.children[i]) : i \in 1..Len(n.children)}
    \cup UNION {DeepNodes(q.query) : q \in NodeSubqueries(n)}

RECURSIVE ExprTree(_)
ExprTree(e) == {e} \cup UNION {ExprTree(e.args[i]) : i \in 1..Len(e.args)}

\* every expression of plan n, at every depth
DeepExprs(n) ==
    UNION {UNION {ExprTree(m.exprs[i]) : i \in 1..Len(m.exprs)} : m \in DeepNodes(n)}

RECURSIVE IsChain(_)
\* derived tables nested directly in one another, down to a table
IsChain(n) ==
    /\ n.kind = "SubqueryAlias"
    /\ n.children[1].kind = "ResolvedTable" \/ IsChain(n.children[1])

\* C8: the body of a Subquery expression is analyzed under the outer scope with
\* the node holding the expression put in front; the body of a SubqueryAlias is
\* analyzed under exactly the nodes of the outer scope, among which there is
\* neither the SubqueryAlias nor a node it is a child of.
C8_VisibilityDistinction ==
    \A i \in 1..Len(calls) :
        /\ IsExprCall(calls[i]) =>
              /\ calls[i].subScope.nodes = <<calls[i].node>> \o InnerToOuter(calls[i].scope)
              /\ calls[i].sq \in NodeSubqueries(calls[i].node)
        /\ IsAliasCall(calls[i]) =>
              /\ calls[i].subScope.nodes = InnerToOuter(calls[i].scope)
              /\ \A j \in 1..Len(calls[i].subScope.nodes) :
                    /\ calls[i].subScope.nodes[j] # calls[i].node
                    /\ \A k \in 1..Len(calls[i].subScope.nodes[j].children) :
                          calls[i].subScope.nodes[j].children[k] # calls[i].node

C8_Witness ==
    /\ op = "finalizeSubqueries"
    /\ \E i, j \in 1..Len(calls) :
          /\ IsExprCall(calls[i])
          /\ Len(InnerToOuter(calls[i].scope)) > 0
          /\ Len(calls[i].subScope.nodes) = Len(calls[i].scope.nodes) + 1
          /\ IsAliasCall(calls[j])
          /\ calls[j].scope = calls[i].subScope
          /\ calls[j].subScope.nodes = calls[i].subScope.nodes

\* C9: the body of a SubqueryAlias is analyzed under a scope one deeper than
\* the scope of the SubqueryAlias, a nil scope counting 0; in a chain of N
\* derived tables under the scope of the query, the body of the k-th from the
\* top is analyzed k deeper than that scope, in both phases.
C9_ScopeDepth ==
    /\ \A i \in 1..Len(calls) :
          IsAliasCall(calls[i]) =>
              calls[i].subScope.depth = RecursionDepth(calls[i].scope) + 1
    /\ (op \in {"resolveSubqueries", "finalizeSubqueries"} /\ IsChain(input)) =>
          /\ \A i \in 1..Len(calls) :
                /\ IsAliasCall(calls[i])
                /\ calls[i].subScope.depth =
                      RecursionDepth(scope) + (input.name - calls[i].node.name) + 1
          /\ \A k \in 1..input.name :
                \E i \in 1..Len(calls) : calls[i].node.name = k

C9_Witness ==
    /\ op = "finalizeSubqueries"
    /\ IsChain(input)
    /\ input.name >= 2
    /\ scope = NilScope
    /\ \E i \in 1..Len(calls) :
          /\ calls[i].finalize
          /\ calls[i].node.name = 1
          /\ calls[i].subScope.depth = input.name

\* C10: on a plan without SubqueryAlias and without Subquery the rewrite
\* function answers SameTree at every node, and resolveSubqueries and
\* finalizeSubqueries return the input plan itself with SameTree and no error.
C10_IdentityStability ==
    (op \in {"resolveSubqueries", "finalizeSubqueries"} /\ Sites(input) = {}) =>
        /\ res = Returned(input, TRUE, NoErr)
        /\ orig = input
        /\ calls = <<>>

C10_Witness ==
    /\ op \in {"resolveSubqueries", "finalizeSubqueries"}
    /\ Sites(input) = {}
    /\ input.kind = "Project"
    /\ input.children[1].kind = "Filter"
    /\ res.same

\* the column index below which a field of the body of p.sq refers outside it:
\* the schema length of the scope extended by the node holding p.sq
Boundary(p) == ScopeSchemaLen(scope) + SchemaLen(p.node)

RefersBelow(p) ==
    \E e \in DeepExprs(p.sq.query) : e.kind = "GetField" /\ e.idx < Boundary(p)

HasNonDeterministic(p) ==
    \E e \in DeepExprs(p.sq.query) : IsNonDeterministic(e)

HasVisibleAlias(p) ==
    \E m \in DeepNodes(p.sq.query) : m.kind = "SubqueryAlias" /\ m.vis

HasAlias(p) ==
    \E m \in DeepNodes(p.sq.query) : m.kind = "SubqueryAlias"

\* C6: cacheSubqueryResults marks a Subquery as cacheable only if it is resolved
\* and nowhere in its body, the bodies of the subquery expressions nested in it
\* included, there is a field reference below the boundary, a non-deterministic
\* expression or a derived table with outer scope visibility.
\* With a nested Subquery taken as an expression that has no child expressions
\* and is not non-deterministic, as here, the property does not hold: the walk
\* of exprIsCacheable never enters Subquery.Query.
C6_CacheableSound ==
    op = "cacheSubqueryResults" =>
        \A p \in TopSubqueries(res.node) :
            p.sq.cached =>
                /\ ExprResolved(p.sq)
                /\ ~RefersBelow(p)
                /\ ~HasNonDeterministic(p)
                /\ ~HasVisibleAlias(p)

RECURSIVE BodyNodes(_)
\* the nodes of plan n, the bodies of its subquery expressions left out
BodyNodes(n) == {n} \cup UNION {BodyNodes(n.children[i]) : i \in 1..Len(n.children)}

BodyExprs(n) ==
    UNION {UNION {ExprTree(m.exprs[i]) : i \in 1..Len(m.exprs)} : m \in BodyNodes(n)}

\* C6 without the nested bodies: a Subquery marked cacheable is resolved, and
\* the nodes of its own body hold no field reference below the boundary, no
\* non-deterministic expression and no derived table.
C6_CacheableSoundOwnBody ==
    op = "cacheSubqueryResults" =>
        \A p \in TopSubqueries(res.node) :
            p.sq.cached =>
                /\ ExprResolved(p.sq)
                /\ \A e \in BodyExprs(p.sq.query) :
                      /\ ~(e.kind = "GetField" /\ e.idx < Boundary(p))
                      /\ ~IsNonDeterministic(e)
                /\ \A m \in BodyNodes(p.sq.query) : m.kind # "SubqueryAlias"

Ancestors(i) ==
    {j \in (i + 1)..Len(calls) : j - calls[j].nested <= i}

\* C11: when an analysis rewrites a node (returns NewTree without error), every
\* analysis that encloses it sees its body reported changed and returns NewTree
\* itself, and the rule reports NewTree for the root, also where the nodes
\* above the rewritten one are not rewritten by the rule itself.
C11_ChangePropagation ==
    op \in {"resolveSubqueries", "finalizeSubqueries"} =>
        \A i \in 1..Len(calls) :
            (calls[i].ret.err = NoErr /\ ~calls[i].ret.same) =>
                /\ \A j \in Ancestors(i) :
                      calls[j].ret.err = NoErr =>
                          ~calls[j].same /\ ~calls[j].ret.same
                /\ res.err = NoErr => ~res.same

\* a derived table two levels below a Project none of whose expressions is
\* rewritten changes, and the change is reported at the root
C11_Witness ==
    /\ op = "resolveSubqueries"
    /\ res.err = NoErr
    /\ ~res.same
    /\ input.kind = "Project"
    /\ Len(calls) > 1
    /\ \A i \in 1..Len(calls) : IsAliasCall(calls[i])
    /\ ~calls[1].ret.same
    /\ Ancestors(1) # {}

(***************************************************************************)
(* Fixpoint termination                                                    *)
(***************************************************************************)
BatchEnded == batch.state \in {"done", "failed"}

\* what holds of a batch run to fixpoint at every moment
FixpointDiscipline ==
    batch.policy = "fixpoint" =>
        /\ batch.i <= batch.iterations
        /\ Len(batch.sames) = batch.i
        /\ batch.state = "running" => \A k \in 1..batch.i : ~batch.sames[k]
        /\ batch.state = "done" =>
              /\ batch.i >= 1
              /\ batch.sames[batch.i]
              /\ \A k \in 1..(batch.i - 1) : ~batch.sames[k]
              /\ res.err = NoErr
        /\ (batch.state = "failed" /\ res.err = "ErrMaxAnalysisIters") =>
              /\ batch.i = batch.iterations
              /\ \A k \in 1..batch.i : ~batch.sames[k]
        /\ (BatchEnded /\ \A k \in 1..Len(batch.rules) : batch.rules[k] = "noop") =>
              batch.state = "done" /\ batch.i = 1

\* C12: a batch run to fixpoint always ends. It ends after the first pass in
\* which no rule reports a change, after exactly one pass when no rule changes
\* the tree; when every pass within the iteration bound reports a change it
\* ends with the engine error ErrMaxAnalysisIters, and it never runs more
\* passes than the bound.
C12_FixpointTermination == [](FixpointDiscipline) /\ <>(BatchEnded)

\* a rule alternating between two states uses up a bound of several iterations
C12_Witness ==
    /\ batch.policy = "fixpoint"
    /\ batch.rules = <<"alternate">>
    /\ batch.iterations = MaxIterations
    /\ batch.state = "failed"
    /\ res.err = "ErrMaxAnalysisIters"
    /\ batch.i = MaxIterations

(***************************************************************************)
(* StripPassthroughNodes on its own: plans below stacked wrappers          *)
(***************************************************************************)
\* plans that are no passthrough node themselves; a wrapper inside them is
\* not at the top level. NilNode is the child of a StartTransaction that
\* has none.
StripBases ==
    {ResolvedTable(1), NilNode,
     Project(<<GetField(0)>>, QueryProcess(ResolvedTable(1))),
     SubqueryAlias(1, 0, TransactionCommittingNode(ResolvedTable(1)), FALSE)}

\* the plans of StripBases below k stacked wrappers, in every order
RECURSIVE Wrapped(_)
Wrapped(k) ==
    IF k = 0 THEN StripBases
    ELSE {ApplyWrap(w, n) : w \in Passthrough, n \in Wrapped(k - 1)}

\* the number of passthrough wrappers on top of n
RECURSIVE WrapDepth(_)
WrapDepth(n) ==
    IF n.kind \in Passthrough THEN 1 + WrapDepth(n.children[1]) ELSE 0

InitStrip ==
    /\ input \in UNION {Wrapped(k) : k \in 0..MaxWrap}
    /\ scope = NilScope
    /\ analysis = <<>>
    /\ op = "start"
    /\ res = [node |-> input, same |-> TRUE, err |-> NoErr]
    /\ calls = <<>>
    /\ orig = input
    /\ batch = NoBatch

\* StripPassthroughNodes applied to the current plan
Strip ==
    /\ \E n \in {StripPassthroughNodes(res.node)} :
           /\ input' = res.node
           /\ res' = [node |-> n, same |-> n = res.node, err |-> NoErr]
           /\ orig' = res.node
    /\ op' = "StripPassthroughNodes"
    /\ UNCHANGED <<scope, analysis, calls, batch>>

\* a further analysis puts one more wrapper on top of the current plan
Rewrap ==
    /\ WrapDepth(res.node) < MaxWrap
    /\ \E w \in Passthrough :
           /\ input' = res.node
           /\ res' = [node |-> ApplyWrap(w, res.node), same |-> FALSE, err |-> NoErr]
           /\ orig' = res.node
    /\ op' = "analyze"
    /\ UNCHANGED <<scope, analysis, calls, batch>>

NextStrip ==
    \/ Strip
    \/ Rewrap

SpecStrip == InitStrip /\ [][NextStrip]_vars

\* C16: what StripPassthroughNodes returned is returned unchanged by a second
\* StripPassthroughNodes, whatever wrappers the plan had on top, how many
\* and in which order.
C16_StripIdempotent ==
    op = "StripPassthroughNodes" =>
        /\ res.node = StripPassthroughNodes(input)
        /\ StripPassthroughNodes(res.node) = res.node

\* three different wrappers stacked on a plan were taken off at once
C16_Witness ==
    /\ op = "StripPassthroughNodes"
    /\ WrapDepth(input) = 3
    /\ {input.kind, input.children[1].kind, input.children[1].children[1].kind}
         = Passthrough
    /\ res.node = input.children[1].children[1].children[1]
    /\ res.node.kind \notin Passthrough

\* C15: every analysis of a subquery that ended without an error returned a
\* node whose subquery body (the query of the Subquery expression, the child
\* of the SubqueryAlias) has no QueryProcess, StartTransaction or
\* TransactionCommittingNode at its root.
C15_NoPassthroughAtRoot ==
    op \in {"resolveSubqueries", "finalizeSubqueries"} =>
        \A i \in Analyses :
            (calls[i].err = NoErr /\ calls[i].ret.err = NoErr) =>
                IF IsExprCall(calls[i])
                THEN calls[i].ret.node.query.kind \notin Passthrough
                ELSE calls[i].ret.node.children[1].kind \notin Passthrough

\* the analyzer returned a body below two stacked wrappers, for a Subquery
\* expression and for a SubqueryAlias, and both were taken off
C15_Witness ==
    /\ op \in {"resolveSubqueries", "finalizeSubqueries"}
    /\ \E i, j \in 1..Len(calls) :
          /\ IsExprCall(calls[i])
          /\ IsAliasCall(calls[j])
          /\ \A k \in {i, j} :
                /\ calls[k].err = NoErr
                /\ calls[k].body.kind = "QueryProcess"
                /\ calls[k].body.children[1].kind = "TransactionCommittingNode"
                /\ calls[k].ret.err = NoErr
          /\ calls[i].ret.node.query.kind \notin Passthrough
          /\ calls[j].ret.node.children[1].kind \notin Passthrough

RECURSIVE EraseVisibility(_)
RECURSIVE EraseVisibilityExpr(_)
\* plan n with OuterScopeVisibility false on every SubqueryAlias, at every depth
EraseVisibility(n) ==
    [n EXCEPT !.vis = FALSE,
              !.children = [i \in 1..Len(n.children) |-> EraseVisibility(n.children[i])],
              !.exprs = [i \in 1..Len(n.exprs) |-> EraseVisibilityExpr(n.exprs[i])]]
EraseVisibilityExpr(e) ==
    [e EXCEPT !.args = [i \in 1..Len(e.args) |-> EraseVisibilityExpr(e.args[i])],
              !.query = IF e.kind = "Subquery" THEN EraseVisibility(e.query) ELSE @]

\* the names of the derived tables of plan n that have outer scope visibility
VisibleAliases(n) ==
    {m.name : m \in {d \in DeepNodes(n) : d.kind = "SubqueryAlias" /\ d.vis}}

\* the analyses of a SubqueryAlias that ran under a scope holding nodes
OuterAliasCalls ==
    {i \in 1..Len(calls) : IsAliasCall(calls[i]) /\ ~IsEmpty(calls[i].scope)}

\* C18 as stated: after resolveSubqueries or finalizeSubqueries the input plan
\* is what it was before the call, in every field of every node.
C18_InputUntouched ==
    op \in {"resolveSubqueries", "finalizeSubqueries"} => orig = input

\* C18 amended: after resolveSubqueries or finalizeSubqueries the input plan
\* is what it was before the call except for the outer scope visibility of
\* its SubqueryAlias nodes: a flag that was set stays set, the flags newly set
\* are those of derived tables analyzed under a scope holding nodes, and with
\* no such analysis the input plan is untouched.
C18_OnlyVisibilityWritten ==
    op \in {"resolveSubqueries", "finalizeSubqueries"} =>
        /\ EraseVisibility(orig) = EraseVisibility(input)
        /\ VisibleAliases(input) \subseteq VisibleAliases(orig)
        /\ VisibleAliases(orig) \ VisibleAliases(input)
              \subseteq {calls[i].node.name : i \in OuterAliasCalls}
        /\ OuterAliasCalls = {} => orig = input

\* the rule reported SameTree, or an error, and the input plan has a flag set
\* that it did not have before
C18_Witness ==
    /\ op \in {"resolveSubqueries", "finalizeSubqueries"}
    /\ res.same
    /\ OuterAliasCalls # {}
    /\ orig # input
    /\ VisibleAliases(orig) # VisibleAliases(input)

\* C19 as stated: a SubqueryAlias returned by its analysis has outer scope
\* visibility exactly when the scope of that analysis holds nodes.
C19_VisibleIffOuterScope ==
    op \in {"resolveSubqueries", "finalizeSubqueries"} =>
        \A i \in 1..Len(calls) :
            (IsAliasCall(calls[i]) /\ calls[i].ret.err = NoErr) =>
                (calls[i].ret.node.vis <=> ~IsEmpty(calls[i].scope))

\* C19 amended: a SubqueryAlias returned by its analysis has outer scope
\* visibility exactly when the scope of that analysis holds nodes or the node
\* had the visibility before: analysis under a scope that holds nodes sets
\* the flag, analysis under an empty or nil scope leaves it as it was.
C19_VisibilityNeverReset ==
    op \in {"resolveSubqueries", "finalizeSubqueries"} =>
        \A i \in 1..Len(calls) :
            (IsAliasCall(calls[i]) /\ calls[i].ret.err = NoErr) =>
                (calls[i].ret.node.vis <=>
                    (calls[i].node.vis \/ ~IsEmpty(calls[i].scope)))

\* a derived table that had the visibility comes back with it from an
\* analysis under an empty scope
C19_Witness ==
    /\ op \in {"resolveSubqueries", "finalizeSubqueries"}
    /\ \E i \in 1..Len(calls) :
          /\ IsAliasCall(calls[i])
          /\ IsEmpty(calls[i].scope)
          /\ calls[i].node.vis
          /\ calls[i].ret.err = NoErr
          /\ calls[i].ret.node.vis

\* every analysis the rule started ended without an error and reported the
\* body it was given as unchanged
AllBodiesSame ==
    \A i \in Analyses : calls[i].err = NoErr /\ calls[i].same

\* C20: resolveSubqueries on a plan whose subquery bodies all come back from
\* their analysis unchanged reports SameTree, and it reports NewTree only with
\* a plan that differs from its input.
C20_IdentityFaithful ==
    (op = "resolveSubqueries" /\ res.err = NoErr) =>
        /\ AllBodiesSame => res.same
        /\ ~res.same => res.node # input

\* a plan holding a Subquery expression whose body the analysis reports as
\* unchanged is returned equal to the input and reported as NewTree
C20_Witness ==
    /\ op = "resolveSubqueries"
    /\ res.err = NoErr
    /\ AllBodiesSame
    /\ \E i \in 1..Len(calls) : IsExprCall(calls[i])
    /\ res.node = input
    /\ orig = input
    /\ ~res.same

(***************************************************************************)
(* Joins                                                                   *)
(***************************************************************************)
IsJoin(n) == IsJoinNode(n) \/ n.kind = "IndexedJoin"

\* the most primary child of a join and the other one, as indexes from 1
Primary(j) == IF IsRightJoin(j) THEN 2 ELSE 1
NonPrimary(j) == 3 - Primary(j)

IsCached(n) == n.kind = "CachedResults"

\* C13: for a join at the root whose most primary child is a CachedResults,
\* cacheSubqueryAlisesInJoins under an empty scope returns the join with that
\* child replaced by what the CachedResults held and with a CachedResults on
\* the other child as it was; under a scope that is not empty both children
\* stay as they were.
C13_TopJoinCacheRemoval ==
    (/\ op = "cacheSubqueryAlisesInJoins"
     /\ IsJoin(input)
     /\ IsCached(input.children[Primary(input)])) =>
        LET p == Primary(input)
            o == NonPrimary(input)
        IN  /\ res.err = NoErr
            /\ res.node.kind = input.kind
            /\ res.node.children[p] =
                  IF IsEmpty(scope) THEN input.children[p].children[1]
                  ELSE input.children[p]
            /\ IsCached(input.children[o]) =>
                  res.node.children[o] = input.children[o]

\* a right join of two cached derived tables under an empty scope
C13_Witness ==
    /\ op = "cacheSubqueryAlisesInJoins"
    /\ IsEmpty(scope)
    /\ IsRightJoin(input)
    /\ IsCached(input.children[1])
    /\ IsCached(input.children[2])
    /\ res.node.children[2].kind = "SubqueryAlias"
    /\ res.node.children[1] = input.children[1]
    /\ ~res.same

\* C14: after cacheSubqueryAlisesInJoins, under any scope, no join has a bare
\* SubqueryAlias as its non-primary child (a SubqueryAlias that was one is now
\* the child of a CachedResults that is the child of the join), no
\* CachedResults is the child of a CachedResults, and applying the rule again
\* returns the same plan.
C14_NonPrimaryCachedOnce ==
    op = "cacheSubqueryAlisesInJoins" =>
        /\ \A j \in BodyNodes(res.node) :
              /\ IsJoin(j) => j.children[NonPrimary(j)].kind # "SubqueryAlias"
              /\ IsCached(j) => ~IsCached(j.children[1])
        /\ \A j \in BodyNodes(input) :
              (IsJoin(j) /\ j.children[NonPrimary(j)].kind = "SubqueryAlias") =>
                  \E k \in BodyNodes(res.node) :
                      /\ k.kind = j.kind
                      /\ k.children[NonPrimary(k)] =
                            NewCachedResults(j.children[NonPrimary(j)])
        /\ cacheSubqueryAlisesInJoins(res.node, scope).node = res.node

\* the rule applied to its own result, which holds a derived table wrapped
\* once as the non-primary child of a join
C14_Witness ==
    /\ op = "cacheSubqueryAlisesInJoins"
    /\ input = res.node
    /\ IsJoin(input)
    /\ IsCached(input.children[NonPrimary(input)])
    /\ input.children[NonPrimary(input)].children[1].kind = "SubqueryAlias"

IsStripped(n) == n.kind = "StripRowNode"

\* C17 as stated: under a scope of L > 0 columns, after setJoinScopeLen every
\* join carries scope length L, both its children are StripRowNodes for L
\* columns and none of them holds a StripRowNode directly.
C17_BothSidesStrippedOnce ==
    (op = "setJoinScopeLen" /\ ScopeSchemaLen(scope) > 0) =>
        \A j \in BodyNodes(res.node) :
            IsJoinNode(j) =>
                /\ j.cols = ScopeSchemaLen(scope)
                /\ \A i \in 1..2 :
                      /\ IsStripped(j.children[i])
                      /\ j.children[i].cols = ScopeSchemaLen(scope)
                      /\ ~IsStripped(j.children[i].children[1])

\* C17 amended: under a scope of L > 0 columns, after setJoinScopeLen every
\* join carries scope length L and its left child is a StripRowNode. Only the
\* left child decides the wrapping: when it was no StripRowNode both children
\* are wrapped in a StripRowNode for L columns, a right child that already
\* was one included; when it was one, both children stay as they were, a
\* right child that was not wrapped included.
C17_LeftSideDecides ==
    (op = "setJoinScopeLen" /\ ScopeSchemaLen(scope) > 0) =>
        LET L == ScopeSchemaLen(scope)
        IN  /\ res.err = NoErr
            /\ \A j \in BodyNodes(res.node) :
                  IsJoinNode(j) => j.cols = L /\ IsStripped(j.children[1])
            /\ (/\ IsJoinNode(input)
                 /\ \A i \in 1..2 : \A m \in BodyNodes(input.children[i]) :
                        ~IsJoinNode(m)) =>
                  res.node.children =
                      IF IsStripped(input.children[1]) THEN input.children
                      ELSE <<NewStripRowNode(input.children[1], L),
                             NewStripRowNode(input.children[2], L)>>

\* a join whose right child alone was stripped: the right child is wrapped a
\* second time
C17_Witness ==
    /\ op = "setJoinScopeLen"
    /\ ScopeSchemaLen(scope) > 0
    /\ IsJoinNode(input)
    /\ ~IsStripped(input.children[1])
    /\ IsStripped(input.children[2])
    /\ IsStripped(res.node.children[2].children[1])
    /\ res.node.cols = ScopeSchemaLen(scope)

(***************************************************************************)
(* One level of derived tables per pass                                    *)
(***************************************************************************)
RECURSIVE SurfaceNodes(_)
\* the nodes of plan n that are not strictly below a SubqueryAlias of n
SurfaceNodes(n) ==
    {n} \cup (IF n.kind = "SubqueryAlias" THEN {}
              ELSE UNION {SurfaceNodes(n.children[i]) : i \in 1..Len(n.children)})

\* the names of the derived tables strictly below a SubqueryAlias of plan n
BuriedAliases(n) ==
    {m.name : m \in {d \in BodyNodes(n) \ SurfaceNodes(n) : d.kind = "SubqueryAlias"}}

\* the analyses started by the rewrite function of the pass itself
OwnCalls == {i \in 1..Len(calls) : Ancestors(i) = {}}

\* node m without its children and without visibility flags
Shallow(m) == [EraseVisibility(m) EXCEPT !.children = <<>>]

\* C21: in a pass of resolveSubqueries or finalizeSubqueries, every analysis
\* the pass starts itself runs under the scope of the pass and is about a node
\* that is not strictly below a SubqueryAlias of the plan; a derived table
\* strictly below one is analyzed only inside the analysis of a derived table
\* above it, under a scope deeper than the scope of the pass.
C21_OneLevelAtATime ==
    op \in {"resolveSubqueries", "finalizeSubqueries"} =>
        /\ \A i \in OwnCalls :
              /\ calls[i].scope = scope
              /\ IsAliasCall(calls[i]) => calls[i].node \in SurfaceNodes(input)
              /\ IsExprCall(calls[i]) =>
                    \E m \in SurfaceNodes(input) : Shallow(m) = Shallow(calls[i].node)
        /\ \A i \in 1..Len(calls) :
              (IsAliasCall(calls[i]) /\ calls[i].node.name \in BuriedAliases(input)) =>
                  /\ \E j \in Ancestors(i) : IsAliasCall(calls[j])
                  /\ RecursionDepth(calls[i].scope) > RecursionDepth(scope)

\* a derived table inside a derived table: the pass starts one analysis, of
\* the outer one, and the inner one is analyzed inside it, one deeper
C21_Witness ==
    /\ op \in {"resolveSubqueries", "finalizeSubqueries"}
    /\ input.kind = "SubqueryAlias"
    /\ input.children[1].kind = "SubqueryAlias"
    /\ Len(calls) >= 2
    /\ OwnCalls = {Len(calls)}
    /\ calls[1].node.name \in BuriedAliases(input)
    /\ RecursionDepth(calls[1].scope) = RecursionDepth(scope) + 1

(***************************************************************************)
(* Sub-contexts of the recursive analyses                                  *)
(***************************************************************************)
\* the analyses whose sub-context is open after the rule returned
OpenSubContexts ==
    {i \in 1..Len(calls) : calls[i].ctx.opened /\ ~calls[i].ctx.cancelled}

\* C22 as stated: every analysis of a subquery, of a Subquery expression and
\* of a SubqueryAlias alike, opened a sub-context of its own, ran the analyzer
\* in it and cancelled it by its return; none is open after the rule.
C22_EveryAnalysisOwnContext ==
    op \in {"resolveSubqueries", "finalizeSubqueries"} =>
        /\ \A i \in Analyses : calls[i].ctx = SubContext(TRUE)
        /\ OpenSubContexts = {}

\* C22 amended: every analysis of a Subquery expression opened a sub-context
\* of its own, ran the analyzer in it and cancelled it by its return, whether
\* it returned the rewritten expression, deferred an error or returned the
\* error; an analysis of a SubqueryAlias opened none and ran the analyzer in
\* the context it was called with; none is open after the rule.
C22_ExpressionOwnContext ==
    op \in {"resolveSubqueries", "finalizeSubqueries"} =>
        /\ \A i \in 1..Len(calls) :
              /\ IsExprCall(calls[i]) => calls[i].ctx = SubContext(TRUE)
              /\ IsAliasCall(calls[i]) => calls[i].ctx = CallerContext
        /\ OpenSubContexts = {}

\* an analysis of a Subquery expression returned an error with its
\* sub-context cancelled, inside the analysis of a derived table that opened
\* none
C22_Witness ==
    /\ op \in {"resolveSubqueries", "finalizeSubqueries"}
    /\ res.err # NoErr
    /\ \E i, j \in 1..Len(calls) :
          /\ IsExprCall(calls[i])
          /\ calls[i].ret.err # NoErr
          /\ calls[i].ctx.opened /\ calls[i].ctx.cancelled
          /\ IsAliasCall(calls[j])
          /\ j \in Ancestors(i)
          /\ ~calls[j].ctx.opened

(***************************************************************************)
(* Trigger blocks                                                          *)
(***************************************************************************)
\* the trigger blocks of plan n
TriggerBlocks(n) == {t \in BodyNodes(n) : t.kind = "TriggerBeginEndBlock"}

\* the decisions of cacheSubqueryResults about a Subquery held by a node of t
DecisionsIn(t) ==
    {i \in 1..Len(calls) : \E p \in TopSubqueries(t) :
        calls[i].node = p.node /\ calls[i].sq = p.sq}

Rebuilds == {j \in 1..Len(calls) : IsRebuild(calls[j])}

\* the analyses of a Subquery of the node that rebuild j is about: those of
\* the same pass, at the same place of the log, about the same node
AnalysesOf(j) ==
    {i \in 1..(j - 1) :
        /\ IsExprCall(calls[i])
        /\ Ancestors(i) = Ancestors(j)
        /\ calls[i].finalize = calls[j].finalize
        /\ Shallow(calls[i].node) = Shallow(calls[j].node)}

\* C24: every call of WithExpressions in a pass of resolveSubqueries or
\* finalizeSubqueries is about a node of which an expression changed; the
\* node built has the kind, the children and as many expressions as the node
\* visited, with the original expression wherever no Subquery was analyzed
\* and the expression the analysis returned wherever one was; no node built
\* is rebuilt in the same pass; a node the pass itself visited and of which a
\* Subquery was analyzed is rebuilt when the pass ends without error; and a
\* pass that reports SameTree made no call itself.
C24_RebuiltOnce ==
    op \in {"resolveSubqueries", "finalizeSubqueries"} =>
        /\ \A j \in Rebuilds :
              LET before == calls[j].node
                  after == calls[j].ret.node
              IN  /\ AnalysesOf(j) # {}
                  /\ after.kind = before.kind
                  /\ after.children = before.children
                  /\ Len(after.exprs) = Len(before.exprs)
                  /\ \A p \in 1..Len(before.exprs) :
                        IF SubqueriesOf(before.exprs[p]) = {}
                        THEN after.exprs[p] = before.exprs[p]
                        ELSE \E i \in AnalysesOf(j) :
                                calls[i].ret.node \in ExprTree(after.exprs[p])
                  /\ \A k \in Rebuilds :
                        (k # j /\ Ancestors(k) = Ancestors(j)
                               /\ calls[k].finalize = calls[j].finalize) =>
                            calls[k].node # after
        /\ \A i \in Analyses :
              (IsExprCall(calls[i]) /\ calls[i].ret.err = NoErr /\ res.err = NoErr
               /\ Ancestors(i) = {}) =>
                  \E j \in Rebuilds : i \in AnalysesOf(j)
        /\ (res.err = NoErr /\ res.same) =>
              \A j \in Rebuilds : Ancestors(j) # {}

\* a Project of three expressions, the first and the last a Subquery: one
\* call of WithExpressions, with both analyzed expressions and the original
\* of the second
C24_Witness ==
    /\ op \in {"resolveSubqueries", "finalizeSubqueries"}
    /\ input.kind = "Project"
    /\ Len(input.exprs) = 3
    /\ Len(calls) = 3
    /\ IsExprCall(calls[1]) /\ IsExprCall(calls[2]) /\ IsRebuild(calls[3])
    /\ calls[3].ret.node.exprs =
          <<calls[1].ret.node, input.exprs[2], calls[2].ret.node>>
    /\ res.node = calls[3].ret.node
    /\ ~res.same

(***************************************************************************)
(* What the second pass of cacheSubqueryAlisesInJoins removes              *)
(***************************************************************************)
RECURSIVE CountCached(_)
RECURSIVE CountCachedFrom(_, _)
\* the number of CachedResults nodes of plan n
CountCached(n) == (IF IsCached(n) THEN 1 ELSE 0) + CountCachedFrom(n.children, 1)
CountCachedFrom(ns, i) ==
    IF i > Len(ns) THEN 0 ELSE CountCached(ns[i]) + CountCachedFrom(ns, i + 1)

RECURSIVE PrimaryPath(_)
\* the nodes of plan n reached without entering a non-primary child of a join
PrimaryPath(n) ==
    {n} \cup (IF IsJoin(n) THEN PrimaryPath(n.children[Primary(n)])
              ELSE UNION {PrimaryPath(n.children[i]) : i \in 1..Len(n.children)})

RECURSIVE TopJoin(_)
\* the join nearest to the root of plan n, below nodes with one child
TopJoin(n) ==
    IF IsJoin(n) THEN n
    ELSE IF Len(n.children) = 1 THEN TopJoin(n.children[1])
    ELSE NilNode

\* the plan after the first pass of the rule on the input
FirstPass == walk(input, NilNode, "cacheSubqueryAlias", 0).node

Collations == {"binary", "ci"}

RECURSIVE TrimRight(_)
\* strings.TrimRight(value, " ")
TrimRight(str) ==
    IF Len(str) > 0 /\ str[Len(str)] = " "
    THEN TrimRight(SubSeq(str, 1, Len(str) - 1))
    ELSE str

\* collation.HashToUint(value): equal for the strings the collation holds
\* equal, here the strings themselves, with the case folded unless binary
HashToUint(collation, str) ==
    IF collation = "binary" THEN str
    ELSE [i \in 1..Len(str) |-> IF str[i] = "A" THEN "a" ELSE str[i]]

RECURSIVE createMembers(_, _, _, _)
\* the loop of CreateSetType over values, from the i-th on
createMembers(values, i, collation, acc) ==
    IF i > Len(values) \/ acc.err # NoErr THEN acc
    ELSE LET value == IF collation # "binary" THEN TrimRight(values[i])
                      ELSE values[i]
             hashedVal == HashToUint(collation, value)
         IN  IF \E k \in 1..Len(values[i]) : values[i][k] = ","
             THEN [acc EXCEPT !.err = "values cannot contain a comma"]
             ELSE IF \E k \in 1..Len(acc.hashes) : acc.hashes[k] = hashedVal
             THEN [acc EXCEPT !.err = "ErrDuplicateEntrySet"]
             ELSE createMembers(values, i + 1, collation,
                      [acc EXCEPT !.hashes = Append(@, hashedVal),
                                  !.bitToVal = Append(@, value)])

\* CreateSetType: hashes[i] is the key of hashedValToBit for bit 2^(i-1) and
\* bitToVal[i] the value of bitToVal for it
CreateSetType(values, collation) ==
    IF Len(values) = 0
    THEN [err |-> "number of values may not be zero", collation |-> collation,
          hashes |-> <<>>, bitToVal |-> <<>>]
    ELSE createMembers(values, 1, collation,
             [err |-> NoErr, collation |-> collation, hashes |-> <<>>,
              bitToVal |-> <<>>])

\* allValuesBitField: 1<<valCount - 1
allValuesBitField(t) == 2 ^ Len(t.hashes) - 1

\* bit&bitField != 0 for bit 2^i
HasBit(bitField, i) == (bitField \div (2 ^ i)) % 2 = 1

\* bitField |= bits, for bits a single bit
BitOr(bitField, bits) ==
    IF \E i \in 0..MaxMembers : bits = 2 ^ i /\ HasBit(bitField, i)
    THEN bitField ELSE bitField + bits

RECURSIVE BitLen(_)
\* 64 - bits.LeadingZeros64(bitField)
BitLen(bitField) == IF bitField = 0 THEN 0 ELSE 1 + BitLen(bitField \div 2)

RECURSIVE writeMembers(_, _, _, _, _)
\* the loop of convertBitFieldToString, from bit 2^i on
writeMembers(t, bitField, i, str, writeCommas) ==
    IF i >= BitLen(bitField) THEN [str |-> str, err |-> NoErr]
    ELSE IF HasBit(bitField, i)
    THEN IF i + 1 > Len(t.bitToVal)
         THEN [str |-> <<>>, err |-> "ErrInvalidSetValue"]
         ELSE writeMembers(t, bitField, i + 1,
                  (IF writeCommas THEN Append(str, ",") ELSE str) \o t.bitToVal[i + 1],
                  TRUE)
    ELSE writeMembers(t, bitField, i + 1, str, writeCommas)

convertBitFieldToString(t, bitField) ==
    IF BitLen(bitField) > Len(t.bitToVal)
    THEN [str |-> <<>>, err |-> "ErrTooLargeForSet"]
    ELSE writeMembers(t, bitField, 0, <<>>, FALSE)

\* BitsToString
BitsToString(t, v) == convertBitFieldToString(t, v)

RECURSIVE Split(_, _, _)
\* strings.Split(str, ","): cur is the piece being read, from the i-th
\* character on
Split(str, i, cur) ==
    IF i > Len(str) THEN <<cur>>
    ELSE IF str[i] = "," THEN <<cur>> \o Split(str, i + 1, <<>>)
    ELSE Split(str, i + 1, Append(cur, str[i]))

Digits == <<"0", "1", "2", "3", "4", "5", "6", "7", "8", "9">>

RECURSIVE parseDigits(_, _, _)
parseDigits(str, i, acc) ==
    IF i > Len(str) THEN acc
    ELSE parseDigits(str, i + 1,
             10 * acc + (CHOOSE d \in 1..10 : Digits[d] = str[i]) - 1)

\* strconv.ParseUint(val, 10, 64); the numerals of the model stay far below
\* 64 bits
ParseUint(str) ==
    IF Len(str) = 0 \/ \E i \in 1..Len(str) : \A d \in 1..10 : Digits[d] # str[i]
    THEN [n |-> 0, err |-> "ErrSyntax"]
    ELSE [n |-> parseDigits(str, 1, 0), err |-> NoErr]

\* the bit of the member value with hash h, 0 if there is none
BitOfHash(t, h) ==
    IF \E k \in 1..Len(t.hashes) : t.hashes[k] = h
    THEN 2 ^ ((CHOOSE k \in 1..Len(t.hashes) : t.hashes[k] = h) - 1)
    ELSE 0

\* asUint is a key of bitToVal
IsBitOf(t, asUint) == \E k \in 1..Len(t.bitToVal) : asUint = 2 ^ (k - 1)

RECURSIVE readMembers_NumberFirst(_, _, _, _)
\* the loop with the numeral tried before the member value
readMembers_NumberFirst(t, vals, i, bitField) ==
    IF i > Len(vals) THEN [bits |-> bitField, err |-> NoErr]
    ELSE LET val == vals[i]
             compareVal == IF t.collation # "binary" THEN TrimRight(val) ELSE val
             bit == BitOfHash(t, HashToUint(t.collation, compareVal))
             asUint == ParseUint(val)
         IN  IF asUint.err = NoErr /\ asUint.n = 0
             THEN readMembers_NumberFirst(t, vals, i + 1, bitField)
             ELSE IF asUint.err = NoErr /\ IsBitOf(t, asUint.n)
             THEN readMembers_NumberFirst(t, vals, i + 1, BitOr(bitField, asUint.n))
             ELSE IF bit # 0
             THEN readMembers_NumberFirst(t, vals, i + 1, BitOr(bitField, bit))
             ELSE [bits |-> 0, err |-> "ErrInvalidSetValue"]

\* mutant: a piece that is a numeral is read as a bit field before it is
\* looked up among the member values
convertStringToBitField_NumberFirst(t, str) ==
    IF str = <<>> THEN [bits |-> 0, err |-> NoErr]
    ELSE readMembers_NumberFirst(t, Split(str, 1, <<>>), 1, 0)

RECURSIVE readMembers(_, _, _, _)
\* the loop of convertStringToBitField over the pieces, from the i-th on
readMembers(t, vals, i, bitField) ==
    IF i > Len(vals) THEN [bits |-> bitField, err |-> NoErr]
    ELSE LET val == vals[i]
             compareVal == IF t.collation # "binary" THEN TrimRight(val) ELSE val
             bit == BitOfHash(t, HashToUint(t.collation, compareVal))
             asUint == ParseUint(val)
         IN  IF bit # 0 THEN readMembers(t, vals, i + 1, BitOr(bitField, bit))
             ELSE IF asUint.err = NoErr /\ asUint.n = 0
             THEN readMembers(t, vals, i + 1, bitField)
             ELSE IF asUint.err = NoErr /\ IsBitOf(t, asUint.n)
             THEN readMembers(t, vals, i + 1, BitOr(bitField, asUint.n))
             ELSE [bits |-> 0, err |-> "ErrInvalidSetValue"]

convertStringToBitField(t, str) ==
    IF str = <<>> THEN [bits |-> 0, err |-> NoErr]
    ELSE readMembers(t, Split(str, 1, <<>>), 1, 0)

\* Convert of a string
Convert(t, str) == convertStringToBitField(t, str)

\* the member values offered to CreateSetType: the empty string, letters that
\* differ in case only, numerals, a value with a trailing space and one with
\* a comma
MemberValues ==
    {<<>>, <<"a">>, <<"A">>, <<"1">>, <<"2">>, <<"a", " ">>, <<"a", ",">>}

ValueLists ==
    UNION {[1..n -> MemberValues] : n \in 1..MaxMembers}

\* the set types CreateSetType returns without an error
SetTypes ==
    {t \in {CreateSetType(vs, c) : vs \in ValueLists, c \in Collations} :
        t.err = NoErr}

\* a set type and a bit field; the bit fields past allValuesBitField are
\* those BitsToString refuses
InitSet ==
    /\ input \in SetTypes
    /\ scope = NilScope
    /\ analysis = <<>>
    /\ op = "start"
    /\ res \in [bits : 0..(2 ^ MaxMembers), str : {<<>>}, back : {0}, err : {NoErr}]
    /\ calls = <<>>
    /\ orig = input
    /\ batch = NoBatch

\* t.BitsToString(v)
SetBitsToString ==
    /\ op = "start"
    /\ \E r \in {BitsToString(input, res.bits)} :
           res' = [res EXCEPT !.str = r.str, !.err = r.err]
    /\ op' = "BitsToString"
    /\ UNCHANGED <<input, scope, analysis, calls, orig, batch>>

\* t.Convert of the string BitsToString returned
SetConvert ==
    /\ op = "BitsToString"
    /\ res.err = NoErr
    /\ \E r \in {Convert(input, res.str)} :
           res' = [res EXCEPT !.back = r.bits, !.err = r.err]
    /\ op' = "Convert"
    /\ UNCHANGED <<input, scope, analysis, calls, orig, batch>>

NextSet ==
    \/ SetBitsToString
    \/ SetConvert

SpecSet == InitSet /\ [][NextSet]_vars

\* the bit of the empty string, if the set has it as a member value, else 0
EmptyMemberBit(t) == BitOfHash(t, <<>>)

\* C26 as stated: for every bit field up to allValuesBitField, BitsToString
\* succeeds and Convert of its string returns the bit field.
C26_RoundTrip ==
    res.bits <= allValuesBitField(input) =>
        /\ op = "BitsToString" => res.err = NoErr
        /\ op = "Convert" => res.err = NoErr /\ res.back = res.bits

\* C26 amended: for every bit field up to allValuesBitField, BitsToString
\* succeeds and Convert of its string succeeds; it returns the bit field,
\* except for the bit field that holds the empty string alone, whose string
\* is empty and is read as the bit field 0.
C26_RoundTripButEmptyMember ==
    res.bits <= allValuesBitField(input) =>
        /\ op = "BitsToString" => res.err = NoErr
        /\ op = "Convert" =>
              /\ res.err = NoErr
              /\ res.back = IF res.bits = EmptyMemberBit(input) THEN 0 ELSE res.bits

\* a set with a numeral and the empty string as member values: the bit
\* field of both comes back, and in another state the one of the numeral
\* whose number is the bit of the other member
C26_Witness ==
    /\ op = "Convert"
    /\ input.bitToVal = <<<<"2">>, <<"1">>, <<>>>>
    /\ res.bits = 5
    /\ res.str = <<"2", ",">>
    /\ res.back = 5

====
